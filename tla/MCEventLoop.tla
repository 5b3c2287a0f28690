----------------------------- MODULE MCEventLoop -----------------------------
(* Finite instances of EventLoop: the configurations give small sets of    *)
(* model values to the handles and goroutines.                             *)
EXTENDS EventLoop

(* A bound for the liveness run, where the graph of all behaviours is too  *)
(* large: at most one handle is in use, and every handle has its turn.     *)
OneHandle == \A j, k \in Jobs : gor'[j] # "unused" /\ gor'[k] # "unused" => j = k
LiveSpec == Init /\ [][Next /\ OneHandle]_vars /\ Fairness
=============================================================================
