------------------------------ MODULE StopHook ------------------------------
(***************************************************************************)
(* scripts/configure-codex-stop-hook.py: read hooks.json of the Codex user, *)
(* merge the Stop hook of the service into it, write a new file and rename *)
(* it over the old one.  Runs overlap each other, end anywhere, and share  *)
(* the file with its owner and with Codex, which reads it at any time.     *)
(*                                                                         *)
(* A document is the hooks of others, malformed groups included, and the   *)
(* commands of the hooks that start codex_dispatch.stop_hook_client.       *)
(***************************************************************************)
EXTENDS Integers, Sequences

CONSTANTS
    Runs,     \* runs of the script
    Command,  \* [Runs -> the command of the checkout it belongs to]
    Others,   \* hooks that are not ours
    MaxEdits  \* bound: changes of the file by its owner

ASSUME HookAssumption == MaxEdits \in Nat

Commands == {Command[r] : r \in Runs}
Documents == [others : SUBSET Others, ours : UNION {[1..n -> Commands] : n \in 0..2}]
Empty == [others |-> {}, ours |-> <<>>]

VARIABLES
    kind,      \* of hooks.json: "none", "whole", "partial" (cut short), "invalid"
    hooks,     \* its document
    at,        \* [Runs -> "begin", "merged", "temp", "done", "refused", "crashed"]
    document,  \* [Runs -> the document it is to write]
    edits      \* ghost

hookVars == <<kind, hooks, at, document, edits>>

\* Whoever reads the file at any time finds a whole document, or the one that was
\* unreadable before: never "partial".
HookTypeOK ==
    /\ kind \in {"none", "whole", "invalid"}
    /\ hooks \in Documents
    /\ at \in [Runs -> {"begin", "merged", "temp", "done", "refused", "crashed"}]
    /\ document \in [Runs -> Documents]
    /\ edits \in 0..MaxEdits

HookInit ==
    /\ \/ kind \in {"none", "invalid"} /\ hooks = Empty
       \/ kind = "whole" /\ hooks \in {d \in Documents : Len(d.ours) <= 1}
    /\ at = [r \in Runs |-> "begin"] /\ document = [r \in Runs |-> Empty]
    /\ edits = 0

-----------------------------------------------------------------------------
\* mutant: a hook of ours is left as it is
IfMissing(d, command) == IF d.ours # <<>> THEN d ELSE [d EXCEPT !.ours = <<command>>]

\* merge_stop_hook
Merged(d, command) ==
    [d EXCEPT !.ours = IF @ = <<>> THEN <<command>> ELSE [i \in DOMAIN @ |-> command]]

Goes(r, to) == at' = [at EXCEPT ![r] = to]

\* load_document and merge_stop_hook; a document that is as it should be is not written.
Load(r) ==
    /\ at[r] = "begin"
    /\ IF kind = "invalid"
       THEN Goes(r, "refused") /\ UNCHANGED document
       ELSE LET d == Merged(hooks, Command[r])
            IN  /\ document' = [document EXCEPT ![r] = d]
                /\ Goes(r, IF d = hooks THEN "done" ELSE "merged")
    /\ UNCHANGED <<kind, hooks, edits>>

\* mutant: hooks.json itself is opened for writing
InPlace(r) ==
    /\ at[r] = "merged" /\ Goes(r, "temp")
    /\ kind' = "partial"
    /\ UNCHANGED <<hooks, document, edits>>

\* The new document is in a file of its own.
WriteTemp(r) ==
    /\ at[r] = "merged" /\ Goes(r, "temp")
    /\ UNCHANGED <<kind, hooks, document, edits>>

Replace(r) ==
    /\ at[r] = "temp" /\ Goes(r, "done")
    /\ kind' = "whole" /\ hooks' = document[r]
    /\ UNCHANGED <<document, edits>>

\* An OSError, which removes the temporary file, or the end of the process, which does not.
RunEnds(r) ==
    /\ at[r] \in {"merged", "temp"} /\ Goes(r, "crashed")
    /\ UNCHANGED <<kind, hooks, document, edits>>

\* The owner, or a tool of the owner, adds or removes a hook.
OwnerEdits ==
    /\ edits < MaxEdits /\ edits' = edits + 1
    /\ kind \in {"none", "whole"} /\ kind' = "whole"
    /\ \/ \E h \in Others : hooks' = [hooks EXCEPT !.others = @ \cup {h}]
       \/ \E h \in Others : hooks' = [hooks EXCEPT !.others = @ \ {h}]
       \/ hooks' = [hooks EXCEPT !.ours = <<>>]
    /\ UNCHANGED <<at, document>>

HookNext == OwnerEdits \/ \E r \in Runs : Load(r) \/ WriteTemp(r) \/ Replace(r) \/ RunEnds(r)

HookSpec == HookInit /\ [][HookNext]_hookVars

-----------------------------------------------------------------------------
(* Properties.                                                              *)

\* However many runs there are, of however many checkouts, at once or one after the other,
\* none adds a second hook: Codex would send every Stop event twice.
NeverTwice == Len(hooks.ours) <= 1

\* When a run ends well every hook of ours in the file is the one of its checkout.
RunInstalls ==
    [][\A r \in Runs : at[r] # "done" /\ at'[r] = "done" =>
          hooks'.ours # <<>> /\ \A i \in DOMAIN hooks'.ours : hooks'.ours[i] = Command[r]]_hookVars

\* A run puts its hook into the file, once.
OneHook == RunInstalls /\ []NeverTwice

\* configure-codex-stop-hook.py:20: no hook of another is removed but by its owner.
\* (violated: a hook added between the load and the rename of a run is lost)
OthersStay == [][edits' = edits => hooks.others \subseteq hooks'.others]_hookVars
=============================================================================
