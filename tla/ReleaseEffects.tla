--------------------------- MODULE ReleaseEffects ---------------------------
(***************************************************************************)
(* What one execution of an approved operation may do to the release state *)
(* of its stack, by outcome.  Operations uses it as the effect of a call;  *)
(* StackRelease makes it a specification that Deployment implements.       *)
(***************************************************************************)

CONSTANTS
  Releases,   \* release identities the root policy may approve
  External,   \* the release found running before the first deployment
  NoRelease   \* the empty release identity

ASSUME ReleaseAssumption ==
  /\ External \notin Releases
  /\ NoRelease \notin Releases \cup {External}

AnyRelease == Releases \cup {External, NoRelease}
ReleaseState == [current: AnyRelease, previous: AnyRelease]
Outcomes == {"succeeded", "rolled_back", "failed"}

(* The release states an execution of d may leave behind: the target       *)
(* becomes current and the old current previous, which is dropped when the *)
(* old current already was the target's image; or the state found, written *)
(* out if there was none.                                                  *)
Found(d) == IF d.before = NoRelease THEN External ELSE d.before
Switched(d) ==
  {[current |-> d.release, previous |-> p] : p \in {Found(d), NoRelease}}
Restored(d, s) ==
  IF s.current = NoRelease THEN [current |-> External, previous |-> NoRelease] ELSE s
StatesAfter(d, o, s) ==
  CASE d.kind = "action"   -> {s}
    [] o = "succeeded"     -> Switched(d)
    [] o = "rolled_back"   -> {Restored(d, s)}
    [] OTHER               -> {s, Restored(d, s)} \cup Switched(d)
=============================================================================
