----------------------------- MODULE MessageText ----------------------------
(***************************************************************************)
(* What happens to texts on their way: the prompt of a Discord message,    *)
(* checked when it is queued and again by the runner that gives it to      *)
(* Codex (normalize_prompt, twice, with a start of the service in between  *)
(* that may bring another limit), and the result of a turn, cut to fit a   *)
(* Discord message (format_completion_message, then send_text).            *)
(*                                                                         *)
(* Texts are sequences over "x", white space, line ends and NUL; the       *)
(* limits are the program's in the small.                                  *)
(***************************************************************************)
EXTENDS Integers, Sequences, SequencesExt

CONSTANTS
    Prompts,       \* texts of messages
    Results,       \* texts of turns
    Headers,       \* lengths of the header of a completion
    Suffix,        \* length of the mark of a result that was cut
    MessageLimit,  \* of Discord
    PromptLimits   \* values of CODEX_DISPATCH_CODEX_PROMPT_MAX_CHARS

White == {" ", "CR", "LF"}
Characters == White \cup {"x", "NUL"}

\* The header of a completion always leaves room: its fields are cut to 80 characters.
ASSUME MessageTextAssumption ==
    /\ Prompts \subseteq Seq(Characters) /\ Results \subseteq Seq(Characters)
    /\ Suffix \in Nat \ {0} /\ MessageLimit \in Nat /\ PromptLimits \subseteq Nat \ {0}
    /\ Headers \subseteq Nat \ {0} /\ \A h \in Headers : h + Suffix < MessageLimit

VARIABLES
    limit,    \* of this start of the service
    lowered,  \* ghost: a start lowered it while the job was queued
    status,   \* "none", "QUEUED", "given" to Codex, or still "DISPATCHED" without
    message,  \* the message of the job
    prompt,   \* its prompt in the database
    input,    \* what Codex was given
    turn,     \* of the turn
    header,   \* length of the header
    content   \* sent to Discord

jobText == <<status, message, prompt, input>>
turnText == <<turn, header, content>>
textVars == <<limit, lowered, jobText, turnText>>

TextTypeOK ==
    /\ limit \in PromptLimits /\ lowered \in BOOLEAN
    /\ status \in {"none", "QUEUED", "DISPATCHED", "given"}
    /\ message \in Prompts \cup {<<>>} /\ turn \in Results \cup {<<>>}
    /\ status \in {"QUEUED", "DISPATCHED", "given"} => prompt # <<>>
    /\ status = "given" => input # <<>>
    /\ Len(content) <= MessageLimit

-----------------------------------------------------------------------------
Inside(s) == {i \in DOMAIN s : s[i] \notin White}
LeftStrip(s) == IF Inside(s) = {} THEN <<>> ELSE SubSeq(s, Min(Inside(s)), Len(s))
RightStrip(s) == IF Inside(s) = {} THEN <<>> ELSE SubSeq(s, 1, Max(Inside(s)))
Strip(s) == LeftStrip(RightStrip(s))

\* "\r\n" and "\r" to "\n": what becomes of one character
LineEnd(s, i) ==
    CASE s[i] # "CR" -> <<s[i]>>
      [] s[i] = "CR" /\ i < Len(s) /\ s[i + 1] = "LF" -> <<>>
      [] OTHER -> <<"LF">>

LineEnds(s) == FlattenSeq([i \in DOMAIN s |-> LineEnd(s, i)])

Normalized(s) == Strip(LineEnds(s))

\* mutant: the first check knows of no limit, the runner's does
AnyLength(s) ==
    /\ Normalized(s) # <<>> /\ "NUL" \notin Range(s)
    /\ status = "none" \/ Len(s) <= limit

\* normalize_prompt raises no PromptValidationError.
Accepted(s) ==
    LET n == Normalized(s)
    IN  n # <<>> /\ "NUL" \notin Range(n) /\ Len(n) <= limit

\* NUL characters go; a turn may end without a text.
Shown(r) ==
    LET s == Strip(FlattenSeq([i \in DOMAIN r |-> IF r[i] = "NUL" THEN <<>> ELSE <<r[i]>>]))
    IN  IF s = <<>> THEN <<"nothing">> ELSE s

\* The rest of format_completion_message
Formatted(h, r) ==
    LET head == [i \in 1..h |-> "h"]
    IN  IF h + Len(r) <= MessageLimit THEN head \o r
        ELSE head \o RightStrip(SubSeq(r, 1, MessageLimit - h - Suffix))
                  \o [i \in 1..Suffix |-> "cut"]

-----------------------------------------------------------------------------
TextInit ==
    /\ limit \in PromptLimits /\ lowered = FALSE
    /\ status = "none" /\ message = <<>> /\ prompt = <<>> /\ input = <<>>
    /\ turn = <<>> /\ header = 0 /\ content = <<>>

\* One text is on its way at a time.
Nothing == status = "none" /\ content = <<>>

\* handle_message of the adapter (which strips) and of the job manager: a job, or a
\* refusal that leaves nothing.
Submit(m) ==
    /\ Nothing
    /\ Strip(m) # <<>> /\ Accepted(Strip(m))
    /\ status' = "QUEUED" /\ message' = m /\ prompt' = Normalized(Strip(m))
    /\ UNCHANGED <<limit, lowered, input, turnText>>

\* With the settings of that start; a queued job is still there.
Restart == /\ limit' \in PromptLimits
           /\ lowered' = (lowered \/ (status = "QUEUED" /\ limit' < limit))
           /\ UNCHANGED <<jobText, turnText>>

\* The job is claimed and the runner called, queue_message or resume: a prompt it refuses
\* leaves the task with an exception nobody expects.
Run ==
    /\ status = "QUEUED"
    /\ IF Accepted(prompt)
       THEN status' = "given" /\ input' = Normalized(prompt)
       ELSE status' = "DISPATCHED" /\ UNCHANGED input
    /\ UNCHANGED <<limit, lowered, message, prompt, turnText>>

Completed ==
    /\ status = "given" /\ status' = "none"
    /\ message' = <<>> /\ prompt' = <<>> /\ input' = <<>> /\ lowered' = FALSE
    /\ UNCHANGED <<limit, turnText>>

\* A turn ends, of this job or one that Discord knows nothing of.
TurnEnds(r, h) ==
    /\ Nothing
    /\ turn' = r /\ header' = h /\ content' = Formatted(h, Shown(r))
    /\ UNCHANGED <<limit, lowered, jobText>>

Delivered ==
    /\ content # <<>> /\ content' = <<>> /\ turn' = <<>> /\ header' = 0
    /\ UNCHANGED <<limit, lowered, jobText>>

TextNext ==
    \/ Restart \/ Run \/ Completed \/ Delivered
    \/ \E m \in Prompts : Submit(m)
    \/ \E r \in Results, h \in Headers : TurnEnds(r, h)

TextSpec == TextInit /\ [][TextNext]_textVars

-----------------------------------------------------------------------------
(* Properties.                                                              *)

\* A prompt that was taken once is not refused the second time, when nobody is there to
\* tell, whatever limits the starts in between bring: only one that lowers it, for all the
\* prompts that wait, leaves a job without an end.
TakenIsTaken == status = "DISPATCHED" => lowered

\* The second normalisation changes nothing: Codex is given the prompt of the row.
StoredIsGiven == status = "given" => input = prompt

\* Where a line ends in a text: "\n", "\r\n" or "\r" (docs/live-codex-dispatch.md:144).
Breaks(s) == {i \in DOMAIN s : \/ s[i] = "CR"
                               \/ s[i] = "LF" /\ (i = 1 \/ s[i - 1] # "CR")}

\* Codex sees the lines of the message, whatever system it was written on: as many line
\* ends as the message has between its first and its last word.
LinesKept ==
    status = "given" =>
        /\ "CR" \notin Range(input)
        /\ Cardinality(Breaks(input)) = Cardinality(Breaks(Strip(message)))

\* A completion is as send_text takes it, at most MessageLimit long with nothing to strip;
\* it shows the result from its start, and all of it unless it says that it was cut.
CompletionFits ==
    content # <<>> =>
        LET shown == SubSeq(content, header + 1, Len(content))
            whole == Shown(turn)
        IN  /\ Len(content) <= MessageLimit /\ Strip(content) = content
            /\ \/ shown = whole
               \/ /\ header + Len(whole) > MessageLimit
                  /\ \E n \in 0..Len(whole) :
                        shown = SubSeq(whole, 1, n) \o [i \in 1..Suffix |-> "cut"]
=============================================================================
