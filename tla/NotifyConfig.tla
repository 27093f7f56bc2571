---------------------------- MODULE NotifyConfig ----------------------------
(***************************************************************************)
(* scripts/configure-codex-notify.sh: put the notify command of the        *)
(* service into config.toml of the Codex user.  The script knows lines,    *)
(* Codex reads TOML: the model has both, a file as the kinds of its lines  *)
(* and what TOML makes of them.  The file is read once to find the setting *)
(* and again to copy it; its owner and Codex may write to it in between.   *)
(* Blank lines and comments are left out.                                  *)
(***************************************************************************)
EXTENDS Integers, Sequences, SequencesExt

CONSTANTS
    Lines,      \* bound: the kinds of lines a file may have
    MaxLines,   \* bound: length of a file
    MaxChanges  \* bound: changes by others

\* "set" x = 1, "table" [t], "old" notify = ["..."], "new" the line of this checkout,
\* "open" notify = [, "list" x = [, "item" ["..."], "close" ], "text" x = """,
\* "textend" ..."""
LineKinds == {"set", "table", "old", "new", "open", "list", "item", "close", "text", "textend"}
NotifyLines == {"old", "new", "open"}

ASSUME ConfigAssumption == Lines \subseteq LineKinds /\ MaxLines \in Nat /\ MaxChanges \in Nat

-----------------------------------------------------------------------------
(* TOML.                                                                    *)

TopOfFile == [mode |-> "keys", top |-> TRUE, has |-> FALSE, notify |-> "none", bad |-> FALSE]

\* A value of `notify`, which a table may have once.
SetNotify(p, l) == [p EXCEPT !.has = TRUE, !.bad = @ \/ p.has,
                             !.notify = IF p.top THEN l ELSE @]

Parse(p, l) ==
    CASE p.mode = "string" -> [p EXCEPT !.mode = IF l \in {"text", "textend"} THEN "keys" ELSE @]
      [] p.mode = "array"  -> [p EXCEPT !.mode = IF l = "close" THEN "keys" ELSE @,
                                        !.bad = @ \/ l \notin {"item", "close"}]
      [] OTHER ->
            CASE l = "set" -> p
              [] l = "table" -> [p EXCEPT !.top = FALSE, !.has = FALSE]
              [] l \in {"old", "new"} -> SetNotify(p, l)
              [] l = "open" -> [SetNotify(p, l) EXCEPT !.mode = "array"]
              [] l = "list" -> [p EXCEPT !.mode = "array"]
              [] l = "text" -> [p EXCEPT !.mode = "string"]
              [] OTHER -> [p EXCEPT !.bad = TRUE]

\* What is known after each of the lines.
Reading(f) == LET known[n \in 0..Len(f)] ==
                      IF n = 0 THEN TopOfFile ELSE Parse(known[n - 1], f[n])
              IN  known

Parsed(f) == Reading(f)[Len(f)]
Valid(f) == ~Parsed(f).bad /\ Parsed(f).mode = "keys"
Files == {f \in BoundedSeq(Lines, MaxLines) : Valid(f)}

-----------------------------------------------------------------------------
VARIABLES
    toml,     \* config.toml
    stage,    \* "begin", "scanned", "copied", "pass", "refused", "crashed"
    line,     \* notify_line, 0 for none
    temp,     \* the new file
    before,   \* ghost: the file that was scanned
    touched,  \* ghost: changed by others since
    changes   \* ghost

configVars == <<toml, stage, line, temp, before, touched, changes>>

\* Codex can read its configuration at any time, whatever the script takes a line for and
\* whoever changes the file while it runs.
ConfigTypeOK ==
    /\ Valid(toml)
    /\ toml \in Seq(LineKinds) /\ temp \in Seq(LineKinds) /\ before \in Seq(LineKinds)
    /\ stage \in {"begin", "scanned", "copied", "pass", "refused", "crashed"}
    /\ line \in Nat /\ touched \in BOOLEAN /\ changes \in 0..MaxChanges

ConfigInit ==
    /\ toml \in Files /\ before = toml
    /\ stage = "begin" /\ line = 0 /\ temp = <<>>
    /\ touched = FALSE /\ changes = 0

\* mutant: the last table is taken for the first
LastBracket(f) ==
    LET b == {i \in DOMAIN f : f[i] \in {"table", "item"}}
    IN  IF b = {} THEN Len(f) + 1 ELSE Max(b)

\* The first line that begins with a bracket; before it the script is on the top level.
Bracket(f) ==
    LET b == {i \in DOMAIN f : f[i] \in {"table", "item"}}
    IN  IF b = {} THEN Len(f) + 1 ELSE Min(b)

TopLevel(f) == {i \in DOMAIN f : f[i] \in NotifyLines /\ i < Bracket(f)}

\* The first loop and the refusals.  (The line found is read once more, configure-codex-
\* notify.sh:45: what may have happened to the file by then is in `touched`.)
Scan ==
    /\ stage \in {"begin", "pass"}
    /\ LET n == TopLevel(toml)
       IN  IF n = {} THEN stage' = "scanned" /\ line' = 0
           ELSE IF \E i, k \in n : i # k THEN stage' = "refused" /\ line' = 0
           ELSE \E i \in n :
                /\ line' = i
                /\ stage' = CASE toml[i] = "new" -> "pass" [] toml[i] = "open" -> "refused"
                              [] OTHER -> "scanned"
    /\ before' = toml /\ touched' = FALSE /\ temp' = <<>>
    /\ UNCHANGED <<toml, changes>>

\* The second loop.
Configured(f) ==
    CASE line = 0 -> InsertAt(f, Bracket(f), "new")
      [] line \in DOMAIN f -> [f EXCEPT ![line] = "new"]
      [] OTHER -> Append(f, "new")

Copy ==
    /\ stage = "scanned" /\ stage' = "copied"
    /\ temp' = Configured(toml)
    /\ UNCHANGED <<toml, line, before, touched, changes>>

\* tomllib, then mv.
Move ==
    /\ stage = "copied"
    /\ IF Valid(temp) THEN stage' = "pass" /\ toml' = temp ELSE stage' = "refused" /\ UNCHANGED toml
    /\ UNCHANGED <<line, temp, before, touched, changes>>

\* The end of the script leaves the file alone.
ScriptEnds == stage \in {"scanned", "copied"} /\ stage' = "crashed"
              /\ UNCHANGED <<toml, line, temp, before, touched, changes>>

\* The owner or Codex adds or removes a line.
OthersWrite ==
    /\ changes < MaxChanges /\ changes' = changes + 1
    /\ toml' \in {f \in {<<l>> \o toml : l \in Lines} \cup {Append(toml, l) : l \in Lines}
                        \cup {RemoveAt(toml, i) : i \in DOMAIN toml} : Valid(f)}
    /\ touched' = TRUE
    /\ UNCHANGED <<stage, line, temp, before>>

\* Refused or ended, the script may be run again.
Again == stage \in {"refused", "crashed"} /\ stage' = "begin"
         /\ UNCHANGED <<toml, line, temp, before, touched, changes>>

ConfigNext == Scan \/ Copy \/ Move \/ ScriptEnds \/ OthersWrite \/ Again

ConfigSpec == ConfigInit /\ [][ConfigNext]_configVars

-----------------------------------------------------------------------------
(* Properties.                                                              *)

\* The settings of `notify` on the top level.
Settings(f) == {i \in DOMAIN f : /\ f[i] \in NotifyLines
                                 /\ Reading(f)[i].top /\ Reading(f)[i - 1].mode = "keys"}

\* The other lines, numbered.
OtherLines(f) == {<<Cardinality((1..i) \ Settings(f)), f[i]>> : i \in DOMAIN f \ Settings(f)}

\* A line of a multi-line text that the script takes for a table or for the setting.
Misread(f) == \E i \in DOMAIN f : /\ Reading(f)[i - 1].mode = "string"
                                  /\ f[i] \in NotifyLines \cup {"table", "item"}

\* PASS means that Codex notifies the service, and that nothing but the setting of the top
\* level was changed (configure-codex-notify.sh:22): all of the others is still there, in
\* its order, arrays and multi-line texts included; but for a text with a line that is
\* misread.
PassConfigures ==
    stage = "pass" /\ ~touched /\ ~Misread(before) =>
        Parsed(toml).notify = "new" /\ OtherLines(toml) = OtherLines(before)
=============================================================================
