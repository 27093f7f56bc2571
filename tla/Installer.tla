------------------------------ MODULE Installer -----------------------------
(***************************************************************************)
(* The scripts that install, configure, upgrade and remove the service     *)
(* (scripts/install-service.sh, configure-service-from-env.sh,             *)
(* upgrade-service.sh, uninstall-service.sh): what they do to the files of *)
(* the deployment, step by step, when any step may be the last.            *)
(*                                                                         *)
(* Kept of the files: whether the settings are filled in, where the bot    *)
(* token is, and which Codex is recorded.  notify.env has defaults only    *)
(* and is left out, and so are owners and modes.                           *)
(***************************************************************************)
EXTENDS Integers, Sequences

CONSTANTS
    Bins,        \* paths of Codex
    NoBin,
    MaxFailures  \* bound: how often a step fails

InstallSteps == <<"env", "bin", "secret", "unit", "meta", "venv", "pip", "package", "reload",
                  "enable">>

ASSUME InstallerAssumption == MaxFailures \in Nat /\ NoBin \notin Bins

VARIABLES
    main,     \* codex-dispatch.env: does it exist, hold a token, have its settings; its Codex
    secret,   \* secret.env: "none", "empty", or the "legacy" or the operator's "own" token
    unit,     \* the unit file: "none", of an "old" release, or the "new" one
    loaded,   \* the one systemd goes by: it reads the file when it is told to
    enabled,
    meta,     \* CODEX_BIN in install.conf
    venv,     \* "none", "bare" (a Python without pip), "pip", "ready"
    service,  \* "inactive", "active", "failing" (systemd has started it in vain)
    script,   \* the script that runs
    verdict,  \* how the last one ended; "down": it could not start the service again
    given,    \* ghost: the operator has entered a token
    cut,      \* ghost: an install ended with the token out of the main file, where the unit
              \* that systemd goes by looks for it
    failures  \* ghost

config == <<main, secret>>
system == <<unit, loaded, enabled, meta, venv>>
ghosts == <<given, cut, failures>>
installerVars == <<config, system, service, script, verdict, ghosts>>

NoScript == [kind |-> "none", todo |-> <<>>, token |-> FALSE, bin |-> NoBin, wasActive |-> FALSE]

Units == {"none", "old", "new"}

InstallerTypeOK ==
    /\ main \in [exists : BOOLEAN, token : BOOLEAN, set : BOOLEAN, bin : Bins \cup {NoBin}]
    /\ secret \in {"none", "empty", "legacy", "own"}
    /\ unit \in Units /\ loaded \in Units
    /\ enabled \in BOOLEAN /\ meta \in Bins \cup {NoBin}
    /\ venv \in {"none", "bare", "pip", "ready"}
    /\ service \in {"inactive", "active", "failing"}
    /\ script.kind \in {"none", "install", "upgrade", "configure"}
    /\ script.kind \in {"install", "upgrade"} => script.bin \in Bins
    /\ verdict \in {"none", "installed", "failed", "down"}
    /\ given \in BOOLEAN /\ cut \in BOOLEAN /\ failures \in 0..MaxFailures

Tokens == {"legacy", "own"}

\* The unit of an earlier release has the token from the main file; in the new one
\* secret.env comes last, and decides.
HasToken == IF loaded = "old" THEN main.token ELSE secret \in Tokens

CanRun == loaded # "none" /\ venv = "ready" /\ main.exists /\ main.set /\ HasToken

\* A new host; one of an earlier release, with its unit and its token in the main file; or
\* one of this release on which the operator has put the token there.
InstallerInit ==
    /\ \/ /\ main = [exists |-> FALSE, token |-> FALSE, set |-> FALSE, bin |-> NoBin]
          /\ secret = "none" /\ unit = "none" /\ enabled = FALSE
          /\ meta = NoBin /\ venv = "none" /\ given = FALSE
       \/ /\ \E b \in Bins :
                main = [exists |-> TRUE, token |-> TRUE, set |-> TRUE, bin |-> b] /\ meta = b
          /\ \/ unit = "old" /\ secret = "none"
             \/ unit = "new" /\ secret \in {"empty", "own"}
          /\ enabled = TRUE /\ venv = "ready" /\ given = TRUE
    /\ loaded = unit
    /\ service \in {"inactive"} \cup (IF CanRun THEN {"active"} ELSE {})
    /\ script = NoScript /\ verdict = "none" /\ cut = FALSE /\ failures = 0

-----------------------------------------------------------------------------
\* Type=simple: systemctl starts what cannot run, too.
SystemctlStart == service' = IF CanRun THEN "active" ELSE "failing"

NoRun == script.kind = "none"

Begin(kind, todo, bin, active) ==
    /\ NoRun
    /\ script' = [NoScript EXCEPT !.kind = kind, !.todo = todo, !.bin = bin,
                                  !.wasActive = active]
    /\ verdict' = "none"

At(step) == script.todo # <<>> /\ Head(script.todo) = step

Done == script' = [script EXCEPT !.todo = Tail(@)] /\ UNCHANGED <<verdict, ghosts>>

\* mutant: a failed upgrade leaves the service as it is
NoRecovery == UNCHANGED service

\* upgrade-service.sh, at either end of the install it runs.
Recovery == IF script.wasActive THEN SystemctlStart ELSE UNCHANGED service

End(how) == script' = NoScript /\ verdict' = how

StepFails == failures < MaxFailures /\ failures' = failures + 1

\* systemctl refuses to start it: "service recovery also failed".
StaysDown == script.wasActive /\ StepFails /\ UNCHANGED service /\ End("down")

-----------------------------------------------------------------------------
(* The scripts begin.                                                       *)

Install(bin, start) ==
    /\ Begin("install", IF start THEN Append(InstallSteps, "start") ELSE InstallSteps,
             bin, FALSE)
    /\ UNCHANGED <<config, system, service, ghosts>>

\* install.conf is there, and names the Codex.
HasMeta == meta # NoBin

\* With the Codex of install.conf; the service is stopped first.
Upgrade ==
    /\ HasMeta
    /\ Begin("upgrade", InstallSteps, meta, service = "active")
    /\ service' = IF service = "active" THEN "inactive" ELSE service
    /\ UNCHANGED <<config, system, ghosts>>

\* Everything that is to be imported is read and checked before.
Configure ==
    /\ main.exists /\ secret # "none"
    /\ Begin("configure", <<"settings", "token">>, NoBin, FALSE)
    /\ UNCHANGED <<config, system, service, ghosts>>

Uninstall(purgeConfig, removeVenv) ==
    /\ NoRun /\ (unit # "none" \/ main.exists)
    /\ service' = "inactive" /\ unit' = "none" /\ loaded' = "none" /\ enabled' = FALSE
    /\ venv' = IF removeVenv /\ meta # NoBin THEN "none" ELSE venv
    /\ IF purgeConfig
       THEN /\ main' = [exists |-> FALSE, token |-> FALSE, set |-> FALSE, bin |-> NoBin]
            /\ secret' = "none" /\ meta' = NoBin /\ given' = FALSE
       ELSE UNCHANGED <<main, secret, meta, given>>
    /\ verdict' = "none"
    /\ UNCHANGED <<script, cut, failures>>

-----------------------------------------------------------------------------
(* The steps of install-service.sh.                                         *)

\* The main file is made, or its token is taken out and remembered.
Env == /\ At("env")
       /\ main' = IF main.exists THEN [main EXCEPT !.token = FALSE]
                  ELSE [main EXCEPT !.exists = TRUE]
       /\ script' = [script EXCEPT !.todo = Tail(@), !.token = main.token]
       /\ UNCHANGED <<secret, system, service, verdict, ghosts>>

Bin == /\ At("bin") /\ main' = [main EXCEPT !.bin = script.bin]
       /\ Done /\ UNCHANGED <<secret, system, service>>

\* mutant: the token of the main file wins
LegacyWins == IF script.token THEN "legacy" ELSE IF secret = "none" THEN "empty" ELSE secret

SecretFile == IF secret \in {"none", "empty"} /\ script.token THEN "legacy"
              ELSE IF secret = "none" THEN "empty" ELSE secret

Secret == /\ At("secret") /\ secret' = SecretFile
          /\ Done /\ UNCHANGED <<main, system, service>>

Unit == /\ At("unit") /\ unit' = "new"
        /\ Done /\ UNCHANGED <<config, loaded, enabled, meta, venv, service>>

Meta == /\ At("meta") /\ meta' = script.bin
        /\ Done /\ UNCHANGED <<config, unit, loaded, enabled, venv, service>>

Venv == /\ At("venv") /\ venv' = IF venv = "none" THEN "pip" ELSE venv
        /\ Done /\ UNCHANGED <<config, unit, loaded, enabled, meta, service>>

\* ensurepip
Repaired == IF venv = "bare" THEN "pip" ELSE venv

Pip == /\ At("pip") /\ venv' = Repaired
       /\ Done /\ UNCHANGED <<config, unit, loaded, enabled, meta, service>>

Package == /\ At("package") /\ venv' = IF venv = "pip" THEN "ready" ELSE venv
           /\ Done /\ UNCHANGED <<config, unit, loaded, enabled, meta, service>>

\* systemctl daemon-reload
Reload == /\ At("reload") /\ loaded' = unit
          /\ Done /\ UNCHANGED <<config, unit, enabled, meta, venv, service>>

Enable == /\ At("enable") /\ enabled' = TRUE
          /\ Done /\ UNCHANGED <<config, unit, loaded, meta, venv, service>>

\* No key of the files is empty.
FilledIn == main.set /\ secret # "empty"

\* --start: exit 78 while something is not filled in.
StartIt == /\ At("start")
           /\ \/ FilledIn /\ SystemctlStart /\ Done
              \/ ~FilledIn /\ End("failed") /\ UNCHANGED <<service, ghosts>>
           /\ UNCHANGED <<config, system>>

\* The steps of configure-service-from-env.sh.
FillIn == /\ At("settings") /\ main' = [main EXCEPT !.set = TRUE]
          /\ Done /\ UNCHANGED <<secret, system, service>>

Token == /\ At("token") /\ secret' = "own" /\ given' = TRUE
         /\ script' = [script EXCEPT !.todo = Tail(@)]
         /\ UNCHANGED <<main, system, service, verdict, cut, failures>>

\* What a cut install had left behind is made good once a script ends with the token there.
Pass == /\ ~NoRun /\ script.todo = <<>>
        /\ \/ /\ Recovery /\ End(IF script.kind = "configure" THEN "none" ELSE "installed")
              /\ cut' = (cut /\ ~HasToken) /\ UNCHANGED failures
           \/ StaysDown /\ UNCHANGED cut
        /\ UNCHANGED <<config, system, given>>

\* set -e: the script ends at the command that fails.  Python may have got as far as
\* its own executable.
Fail == /\ script.todo # <<>>
        /\ \/ StepFails /\ Recovery /\ End("failed")
           \/ StaysDown
        /\ venv' \in {venv} \cup (IF At("venv") /\ venv = "none" THEN {"bare"} ELSE {})
        /\ cut' = (cut \/ (script.token /\ loaded = "old"))
        /\ UNCHANGED <<config, unit, loaded, enabled, meta, given>>

\* Restart=always: a process that has ended is started again with the files as they are.
Restarts == /\ service # "inactive" /\ SystemctlStart
            /\ UNCHANGED <<config, system, script, verdict, ghosts>>

-----------------------------------------------------------------------------
InstallerNext == \/ \E b \in Bins, start \in BOOLEAN : Install(b, start)
                 \/ \E c, v \in BOOLEAN : Uninstall(c, v)
                 \/ Upgrade \/ Configure \/ Env \/ Bin \/ Secret \/ Unit \/ Meta \/ Venv \/ Pip
                 \/ Package \/ Reload \/ Enable \/ StartIt \/ FillIn \/ Token \/ Pass \/ Fail
                 \/ Restarts

InstallerSpec == InstallerInit /\ [][InstallerNext]_installerVars

-----------------------------------------------------------------------------
(* Properties.                                                              *)

\* An install has taken the token out of the main file, and systemd still goes by the unit
\* that reads it there.
TokenIsOut == script.token /\ loaded = "old"

\* No script leaves a service that cannot run to be started: what fails is about to run
\* again, or an install was cut between the token and the unit.
NeverFailing == service = "failing" => CanRun \/ TokenIsOut \/ cut

\* docs/systemd-operations.md:314: an upgrade leaves the service running if and only if it
\* ran before, also when its install fails at any step, unless that one is cut between the
\* token and the unit; or it says that it could not.
UpgradeRestores ==
    [][script.kind = "upgrade" /\ script'.kind = "none" /\ verdict' # "down" /\ ~cut'
       => service' = IF script.wasActive THEN "active" ELSE service]_installerVars

\* What the operator has filled in stays, but for a purge: an install repeated over it, in
\* any state, does not put a template or an older token in its place.
NothingOverwritten ==
    [][main'.exists /\ secret' # "none"
       => /\ main.set => main'.set
          /\ secret = "own" => secret' = "own"
          /\ secret = "legacy" => secret' \in Tokens]_installerVars

\* "installation: PASS" can be believed, whatever an earlier run left half done.
PassIsComplete ==
    verdict = "installed" =>
        /\ unit = "new" /\ loaded = "new" /\ enabled
        /\ venv = "ready" /\ meta = main.bin /\ ~main.token

\* What a script has said and left of the service is true.
InstallsAreTrue == UpgradeRestores /\ [](NeverFailing /\ PassIsComplete)

\* docs/systemd-operations.md:79: a token in the main file is moved to secret.env, and it
\* is in one of them when no script runs.  (violated if the install ends in between)
TokenKept == given /\ NoRun => main.token \/ secret \in Tokens

\* The whole promise of docs/systemd-operations.md:314.  (violated by the upgrade of a
\* running earlier release whose install ends before "reload")
AlwaysRestored ==
    [][script.kind = "upgrade" /\ script'.kind = "none" /\ script.wasActive /\ verdict' # "down"
       => service' = "active"]_installerVars
=============================================================================
