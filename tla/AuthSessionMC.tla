---------------------------- MODULE AuthSessionMC ----------------------------
(* Instances of AuthSession for TLC. *)
EXTENDS AuthSession, TLC

(* The tabs are alike. *)
TabSymmetry == Permutations(Tabs)

BaseSetup ==
    [strict |-> FALSE, known |-> {"ann"}, limit |-> 0, window |-> 0, grain |-> 4,
     asks |-> 6, losses |-> 0, faults |-> 0, expiries |-> 0, ticks |-> 0]

(* Overlapping tabs; answers that are lost, commits that raise, time that    *)
(* passes; an unknown user; both mounts of strict mode; the limiter alone.   *)
SetupsMC ==
    {[BaseSetup EXCEPT !.asks = 9, !.expiries = 1],
     [BaseSetup EXCEPT !.losses = 1, !.faults = 1, !.expiries = 1],
     [BaseSetup EXCEPT !.known = {}, !.expiries = 1],
     [BaseSetup EXCEPT !.strict = TRUE, !.losses = 1, !.expiries = 1],
     [BaseSetup EXCEPT !.limit = 2, !.window = 2, !.asks = 6, !.ticks = 18]}
=============================================================================
