--------------------------- MODULE MCNoisySource ---------------------------
(***************************************************************************)
(* One noisy source against the global budget. ratelimit.rs gives each     *)
(* source its own bucket "to stop a single noisy (non-spoofing) source     *)
(* from consuming the whole global budget and starving other legitimate    *)
(* connecting clients".                                                    *)
(***************************************************************************)
EXTENDS RateLimiter

VARIABLE charged   \* history: global tokens paid for each source's packets

MCInstants == 0..1

NoisyInit == Init /\ charged = [s \in Source |-> 0]

NoisyNext ==
  \/ \E now \in Instants : CheckGlobalEmpty(now) /\ UNCHANGED charged
  \/ \E src \in Source, now \in Instants :
       CheckSource(src, now) /\ charged' = [charged EXCEPT ![src] = @ + 1]

NoisySpec == NoisyInit /\ [][NoisyNext]_<<vars, charged>>

(* The packets of one source alone never use up the global budget. The     *)
(* constants of the run let a source's own bucket pass fewer packets than  *)
(* the global bucket holds.                                                *)
OneSourceLeavesBudget ==
  \A s \in Source :
    (\A t \in Source \ {s} : charged[t] = 0) => HasToken(global)
=============================================================================
