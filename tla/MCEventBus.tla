----------------------------- MODULE MCEventBus -----------------------------
(* Instances of EventBus for TLC. *)
EXTENDS EventBus

CONSTANTS price, filled,   \* event types
          engine, screen,  \* handlers: the engine reacts to prices, the screen to both
          p1, p2           \* producers

MCInterests == {<<price, engine>>, <<price, screen>>, <<filled, screen>>}

Silent == [h \in {engine, screen} |-> <<>>]
EngineFills == [h \in {engine, screen} |-> IF h = engine THEN <<filled>> ELSE <<>>]

(* Handlers that publish nothing under producers that overfill the queue,   *)
(* and a publishing handler under a load that leaves it room.               *)
RoomyWorkloads == {[script |-> Silent, limit |-> 4],
                   [script |-> EngineFills, limit |-> 2]}

(* A publishing handler under producers that can fill the queue meanwhile.  *)
TightWorkloads == {[script |-> EngineFills, limit |-> 3]}

ASSUME WorkloadsSplit ==
    /\ \A w \in RoomyWorkloads : LeavesRoom(w)
    /\ \A w \in TightWorkloads : ~LeavesRoom(w)
=============================================================================
