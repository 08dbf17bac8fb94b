---------------------------- MODULE RunLifecycle ----------------------------
(***************************************************************************)
(* What a caller of tax_auto may rely on, without steps, locks or rows: a  *)
(* run of a tenant is opened, is either refused because another run is     *)
(* using that tenant's session or gets the session for itself, gives it    *)
(* back, and ends once, as DONE or FAILED.  An error may strike it before, *)
(* during and after its time in the session; it then ends as FAILED.  Only *)
(* a run that had the session and gave it back without one can be DONE.  A *)
(* run whose process is killed, or whose last write fails, is lost:        *)
(* nothing ever resumes it.  A run can be revised from DONE to FAILED,     *)
(* when writing its RUN_END audit record fails.                            *)
(***************************************************************************)
CONSTANTS RunId, Tenant, None

VARIABLES stage,   \* stage[r]: how far run r has come
          site     \* site[r]: the tenant run r is for, None before it is opened

vars == <<stage, site>>

Stage == {"none", "open", "refused", "inside", "closing", "failing", "DONE",
          "FAILED", "lost"}

Init == /\ stage = [r \in RunId |-> "none"]
        /\ site  = [r \in RunId |-> None]

\* The runs that are using tenant t's browser session.
Inside(t) == {r \in RunId : stage[r] = "inside" /\ site[r] = t}

Open(r) ==
  /\ stage[r] = "none"
  /\ stage' = [stage EXCEPT ![r] = "open"]
  /\ \E t \in Tenant : site' = [site EXCEPT ![r] = t]

Enter(r) ==
  /\ stage[r] = "open"
  /\ Inside(site[r]) = {}
  /\ stage' = [stage EXCEPT ![r] = "inside"]
  /\ UNCHANGED site

Refuse(r) ==
  /\ stage[r] = "open"
  /\ Inside(site[r]) # {}
  /\ stage' = [stage EXCEPT ![r] = "refused"]
  /\ UNCHANGED site

Leave(r) ==
  /\ stage[r] = "inside"
  /\ stage' = [stage EXCEPT ![r] = "closing"]
  /\ UNCHANGED site

Break(r) ==
  /\ stage[r] \in {"open", "inside", "closing"}
  /\ stage' = [stage EXCEPT ![r] = "failing"]
  /\ UNCHANGED site

Close(r) ==
  /\ \/ stage[r] = "closing" /\ stage' = [stage EXCEPT ![r] = "DONE"]
     \/ stage[r] \in {"refused", "failing", "DONE"} /\ stage' = [stage EXCEPT ![r] = "FAILED"]
  /\ UNCHANGED site

Lose(r) ==
  /\ stage[r] \in {"open", "refused", "inside", "closing", "failing"}
  /\ stage' = [stage EXCEPT ![r] = "lost"]
  /\ UNCHANGED site

\* Every step takes some run further.
Next ==
  /\ stage' # stage
  /\ \E r \in RunId : Open(r) \/ Enter(r) \/ Refuse(r) \/ Leave(r) \/ Break(r)
                      \/ Close(r) \/ Lose(r)

Spec == Init /\ [][Next]_vars
=============================================================================
