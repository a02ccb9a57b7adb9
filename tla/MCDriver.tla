------------------------------ MODULE MCDriver ------------------------------
\* The three drivers' tables as instances of Driver, for TLC.
EXTENDS Driver, TLC

A == INSTANCE Am5
O == INSTANCE OnStep
T == INSTANCE TenMicron WITH MaxPulse <- MaxPulse

CONSTANTS c1, c2

MCMax  == (c1 :> 2) @@ (c2 :> 2)
MCMore == (c1 :> 2) @@ (c2 :> 1)

AllDrivers == {"am5", "onstep", "tenmicron"}
OneDriver == {"tenmicron"}

MCOpen  == [am5 |-> A!Opening, onstep |-> O!Opening, tenmicron |-> T!Opening]
MCCalls == [am5 |-> A!Methods, onstep |-> O!Methods, tenmicron |-> T!Methods]
MCPolls == [am5 |-> A!Getters, onstep |-> O!Getters, tenmicron |-> T!Getters]
MCFetch == [am5 |-> A!Fetching, onstep |-> O!Fetching, tenmicron |-> T!Fetching]

\* An OnStep controller may have printed a line that is not closed.
MCJunk == [am5 |-> {<<>>}, onstep |-> {<<>>, <<"n">>}, tenmicron |-> {<<>>}]

\* The methods that move the mount by hand, with the primitives Blind, Ack and AckByte.
FaultCalls == [tenmicron |-> {T!StopAxis("P"), T!MoveAxisRate("P")}]
FaultPolls == [tenmicron |-> {T!Slewing}]
=============================================================================
