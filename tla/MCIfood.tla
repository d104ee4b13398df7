------------------------------ MODULE MCIfood ------------------------------
(* A small instance of IfoodWorker for TLC.                                *)
EXTENDS IfoodWorker, TLC

CONSTANT Budget   \* bounds events, commands, later changes and faults together

\* Workers are interchangeable: each tick is the same whoever runs it.
Interchangeable == Permutations(Worker)

Asked == {op \in Operation : command[op].status # "NONE"}

\* The manager first connects the merchant, with automatic import; deliveries are made
\* and released either by hand or by themselves.  At most one event comes before that.
Connected ==
  /\ changes = 0 => Cardinality(Emitted) <= 1
  /\ changes = 1 => /\ connection.enabled /\ connection.import
                    /\ connection.create <=> connection.mode # "MANUAL"

\* Three status events, two of them with a command, a later change or a fault, or one
\* with two of these; one command; one event fails at a time; no fault
\* beside a refused cancellation.
Bounds ==
  (/\ Cardinality(Emitted \cap StatusEvents) + Cardinality(Asked) + Cardinality(2..changes)
        + crashes + overruns <= Budget
   /\ Emitted \subseteq StatusEvents \/ crashes + overruns = 0
   /\ Cardinality(Asked) <= 1
   /\ Cardinality({e \in Event : event[e].status = "ERROR"}) <= 1
   /\ Connected)'
=============================================================================
