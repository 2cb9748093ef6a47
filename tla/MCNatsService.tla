--------------------------- MODULE MCNatsService ---------------------------
(* A small instance of NatsService: a method that listens alone, one that   *)
(* shares a queue with a subscription of the application, and a provider    *)
(* without instance.                                                        *)
EXTENDS NatsService

CONSTANTS w1, w2, onCreated, onTask, app, m1, m2, queue

MCMethodsOf == [w \in {w1, w2} |-> IF w = w1 THEN {onCreated, onTask} ELSE {}]
MCSubjectOf == [x \in {<<w1, onCreated>>, <<w1, onTask>>, app, m1, m2} |-> "orders"]
MCRequesters == {<<w1, onTask>>}
MCQueueOf == [s \in {<<w1, onCreated>>, <<w1, onTask>>, app} |->
                IF s = <<w1, onCreated>> THEN Null ELSE queue]
=============================================================================
