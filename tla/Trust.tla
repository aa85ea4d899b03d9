------------------------------- MODULE Trust --------------------------------
(***************************************************************************)
(* What the Windows helper relies on: the data directory and the token in  *)
(* it, which the service and the installer prepare and the app reads, and  *)
(* the checks of a client's image.                                         *)
(*                                                                         *)
(* The service and the installer are two processes; each Win32 call is a   *)
(* step, and the service may be killed between any two.  verifyClient      *)
(* calls processImagePath only; verifyAuthenticode and verifySignerCN,     *)
(* which no code calls at this commit, are modelled as callers would use   *)
(* them.                                                                   *)
(***************************************************************************)
EXTENDS Integers, Sequences

CONSTANTS
    Modes,       \* how the helper is run: subset of {"service", "console"}
    MaxTokens,   \* bound: tokens generated
    Faults       \* subset of {"mkdir", "owner", "reclaim", "remove", "write", "scm", "kill"}

ASSUME TokensAssumption == MaxTokens \in Nat
ASSUME ModesAssumption == Modes \subseteq {"service", "console"}
ASSUME FaultsAssumption ==
    Faults \subseteq {"mkdir", "owner", "reclaim", "remove", "write", "scm", "kill"}

VARIABLES
    dir, file,      \* owner of the data directory, what daemon.token holds
    at, caller,     \* each process: its step, and what called ensureSecureDir
    token,          \* the server's token
    generated,      \* tokens generated so far
    installed,      \* the service is registered
    app, proven,    \* the app's copy of the token; read while the service ran
    call, image,    \* the check under way: <<function, step>>; facts of the image
    held, deferred  \* resources the check holds, and those it has deferred the release of

tokenVars == <<dir, file, at, caller, token, generated, installed, app, proven>>
checkVars == <<call, image, held, deferred>>
vars == <<tokenVars, checkVars>>

Processes == {"service", "installer"}
Tokens == 0 .. MaxTokens       \* 0: one that was there before
NoToken == -1   \* no file; no token
Empty == -2
Short == -3     \* under 32 characters
Contents == Tokens \cup {NoToken, Empty, Short}
Callers == {"logging", "token", "install"}
SecureSteps == {"mkdir", "owner", "reclaim", "purge"}

-----------------------------------------------------------------------------
(* The checks: for each function its calls, what a call acquires, what is  *)
(* deferred once it has succeeded, and what it releases itself.            *)

Functions == {"verifyClient", "verifyAuthenticode", "verifySignerCN"}

verifyClient == <<"OpenProcess", "QueryImageName", "ComparePath">>

\* The verdict of WinVerifyTrust is looked at after its state has been released.
verifyAuthenticode == <<"WinVerifyTrust", "CloseState", "Result">>

verifySignerCN ==
    <<"CryptQueryObject", "MsgSize", "MsgData", "FindCert", "SubjectSize", "CompareSubject">>

Calls(f) ==
    CASE f = "verifyClient" -> verifyClient
      [] f = "verifyAuthenticode" -> verifyAuthenticode
      [] f = "verifySignerCN" -> verifySignerCN

\* The images a check may be asked about.
Images == [path : {"gui", "other"}, chain : BOOLEAN, signer : {"none", "noCert", "nameless", "publisher", "other"}]

Acquires(c) ==
    CASE c = "OpenProcess" -> {"process"}
      [] c = "WinVerifyTrust" -> {"state"}
      [] c = "CryptQueryObject" -> {"msg", "store"}
      [] c = "FindCert" -> {"cert"}
      [] OTHER -> {}

\* Mutant: the certificate is left to the store.
DefersFew(c) ==
    CASE c = "OpenProcess" -> {"process"}
      [] c = "CryptQueryObject" -> {"msg", "store"}
      [] OTHER -> {}

Defers(c) ==
    CASE c = "OpenProcess" -> {"process"}
      [] c = "CryptQueryObject" -> {"msg", "store"}
      [] c = "FindCert" -> {"cert"}
      [] OTHER -> {}

Releases(c) == IF c = "CloseState" THEN {"state"} ELSE {}

\* The image makes the call fail.
Refused(c) ==
    \/ c = "ComparePath" /\ image.path # "gui"
    \/ c = "Result" /\ ~image.chain
    \/ c = "CryptQueryObject" /\ image.signer = "none"
    \/ c = "FindCert" /\ image.signer = "noCert"
    \/ c = "SubjectSize" /\ image.signer = "nameless"
    \/ c = "CompareSubject" /\ image.signer # "publisher"

\* Calls that may also fail for reasons of their own.
MayFail == {"OpenProcess", "QueryImageName", "CryptQueryObject", "MsgSize", "MsgData", "FindCert", "SubjectSize"}

NoCall == <<"none", 0>>
NoImage == [path |-> "other", chain |-> FALSE, signer |-> "none"]

-----------------------------------------------------------------------------

TypeOK ==
    /\ dir \in {"none", "foreign", "trusted"}
    /\ file \in Contents
    /\ at \in [Processes -> SecureSteps \cup {"off", "read", "truncate", "fill", "running", "scm"}]
    /\ caller \in [Processes -> Callers]
    /\ token \in Tokens \cup {NoToken}
    /\ generated \in Tokens
    /\ installed \in BOOLEAN
    /\ app \in Contents \ {Empty} /\ proven \in BOOLEAN
    /\ call \in {NoCall} \cup (Functions \X (1 .. 6))
    /\ image \in Images
    /\ {held, deferred} \subseteq SUBSET {"process", "state", "msg", "store", "cert"}

Init ==
    /\ dir \in {"none", "foreign"}
    /\ file \in (IF dir = "none" THEN {NoToken} ELSE {NoToken, Short, 0})
    /\ at = [p \in Processes |-> "off"]
    /\ caller = [p \in Processes |-> IF p = "service" THEN "token" ELSE "install"]
    /\ token = NoToken /\ generated = 0 /\ installed = FALSE
    /\ app = NoToken /\ proven = FALSE
    /\ call = NoCall /\ image = NoImage /\ held = {} /\ deferred = {}

-----------------------------------------------------------------------------
(* ensureSecureDir.                                                        *)

Goto(p, s) == at' = [at EXCEPT ![p] = s] /\ UNCHANGED caller

\* Return to the caller.  setupServiceLogging ignores an error, and the token is
\* loaded next; the others give up.
Secured(p, ok) ==
    \/ /\ caller[p] = "logging"
       /\ at' = [at EXCEPT ![p] = "mkdir"]
       /\ caller' = [caller EXCEPT ![p] = "token"]
    \/ /\ caller[p] # "logging"
       /\ Goto(p, IF ~ok THEN "off" ELSE IF caller[p] = "token" THEN "read" ELSE "scm")

SecureVars == <<token, generated, installed, app, proven, checkVars>>

CreateDirectory(p) ==
    /\ at[p] = "mkdir"
    /\ \/ dir = "none" /\ dir' = "trusted" /\ Secured(p, TRUE)
       \/ dir # "none" /\ Goto(p, "owner") /\ UNCHANGED dir
       \/ "mkdir" \in Faults /\ Secured(p, FALSE) /\ UNCHANGED dir
    /\ UNCHANGED <<file, SecureVars>>

\* An owner that cannot be read counts as one that is not trusted.
verifyDirTrusted == {dir = "trusted"} \cup (IF "owner" \in Faults THEN {FALSE} ELSE {})

CheckOwner(p) ==
    /\ at[p] = "owner"
    /\ \/ TRUE \in verifyDirTrusted /\ Secured(p, TRUE)
       \/ FALSE \in verifyDirTrusted /\ Goto(p, "reclaim")
    /\ UNCHANGED <<dir, file, SecureVars>>

Reclaim(p) ==
    /\ at[p] = "reclaim"
    /\ \/ dir' = "trusted" /\ Goto(p, "purge")
       \/ "reclaim" \in Faults /\ Secured(p, FALSE) /\ UNCHANGED dir
    /\ UNCHANGED <<file, SecureVars>>

\* The token and the allowlist, which nothing reads; errors are ignored.
Purge(p) ==
    /\ at[p] = "purge"
    /\ file' \in {NoToken} \cup (IF "remove" \in Faults THEN {file} ELSE {})
    /\ Secured(p, TRUE)
    /\ UNCHANGED <<dir, SecureVars>>

ensureSecureDir(p) == CreateDirectory(p) \/ CheckOwner(p) \/ Reclaim(p) \/ Purge(p)

-----------------------------------------------------------------------------
(* The service: main, setupServiceLogging, start, loadOrCreateToken.       *)

\* The SCM starts the service; a console needs no registration and no log file.
Run(mode) ==
    /\ at["service"] = "off" /\ mode = "service" => installed
    /\ at' = [at EXCEPT !["service"] = "mkdir"]
    /\ caller' = [caller EXCEPT !["service"] = IF mode = "service" THEN "logging" ELSE "token"]
    /\ UNCHANGED <<dir, file, SecureVars>>

\* Mutant: whatever the file holds is taken.
LoadTokenAny ==
    /\ at["service"] = "read"
    /\ \/ file # NoToken /\ token' = file /\ Goto("service", "running")
       \/ file = NoToken /\ Goto("service", "truncate") /\ UNCHANGED token
    /\ UNCHANGED <<dir, file, generated, installed, app, proven, checkVars>>

\* Mutant: every start makes a new token.
LoadTokenNever ==
    /\ at["service"] = "read"
    /\ Goto("service", "truncate")
    /\ UNCHANGED <<dir, file, token, generated, installed, app, proven, checkVars>>

\* ReadFile: at least 32 characters, or a new token.
LoadToken ==
    /\ at["service"] = "read"
    /\ \/ file \in Tokens /\ token' = file /\ Goto("service", "running")
       \/ file \notin Tokens /\ Goto("service", "truncate") /\ UNCHANGED token
    /\ UNCHANGED <<dir, file, generated, installed, app, proven, checkVars>>

\* WriteFile creates or truncates, then writes; a failed write fails the start.
TruncateToken ==
    /\ at["service"] = "truncate" /\ generated < MaxTokens
    /\ generated' = generated + 1
    /\ \/ file' = Empty /\ Goto("service", "fill")
       \/ "write" \in Faults /\ Goto("service", "off") /\ UNCHANGED file
    /\ UNCHANGED <<dir, token, installed, app, proven, checkVars>>

\* Mutant: a failed write does not fail the start.
FillTokenIgnores ==
    /\ at["service"] = "fill"
    /\ file' \in {generated} \cup (IF "write" \in Faults THEN {Empty, Short} ELSE {})
    /\ token' = generated /\ Goto("service", "running")
    /\ UNCHANGED <<dir, generated, installed, app, proven, checkVars>>

FillToken ==
    /\ at["service"] = "fill"
    /\ \/ file' = generated /\ token' = generated /\ Goto("service", "running")
       \/ /\ "write" \in Faults
          /\ file' \in {Empty, Short} /\ Goto("service", "off") /\ UNCHANGED token
    /\ UNCHANGED <<dir, generated, installed, app, proven, checkVars>>

\* Stopped once it runs, or killed at any step.
End ==
    /\ at["service"] = "running" \/ ("kill" \in Faults /\ at["service"] # "off")
    /\ Goto("service", "off")
    /\ token' = NoToken
    /\ call' = NoCall /\ image' = NoImage /\ held' = {} /\ deferred' = {}
    /\ UNCHANGED <<dir, file, generated, installed, app, proven>>

-----------------------------------------------------------------------------
(* installService and uninstallService; the app; whoever owned the         *)
(* directory before.                                                       *)

Install ==
    /\ at["installer"] = "off"
    /\ Goto("installer", "mkdir")
    /\ UNCHANGED <<dir, file, SecureVars>>

\* The service manager: "already installed", an error, or registered.
Register ==
    /\ at["installer"] = "scm"
    /\ Goto("installer", "off")
    /\ installed' \in {TRUE} \cup (IF "scm" \in Faults THEN {installed} ELSE {})
    /\ UNCHANGED <<dir, file, token, generated, app, proven, checkVars>>

Uninstall ==
    /\ at["installer"] = "off" /\ installed
    /\ installed' = FALSE
    /\ UNCHANGED <<dir, file, at, caller, token, generated, app, proven, checkVars>>

\* fromInstalledToken, once for the life of the app.
ReadToken ==
    /\ app' = IF file = Empty THEN NoToken ELSE file
    /\ proven' = (at["service"] = "running")
    /\ UNCHANGED <<dir, file, at, caller, token, generated, installed, checkVars>>

\* Someone else has the directory until the helper takes it.
Foreign(content) ==
    /\ dir # "trusted"
    /\ dir' = "foreign" /\ file' = content
    /\ UNCHANGED <<at, caller, SecureVars>>

-----------------------------------------------------------------------------
(* One check by the running service.                                       *)

Check(f, facts) ==
    /\ at["service"] = "running" /\ call = NoCall
    /\ call' = <<f, 1>> /\ image' = facts
    /\ UNCHANGED <<tokenVars, held, deferred>>

\* An early return runs the calls deferred so far.
CheckFails ==
    /\ call # NoCall
    /\ LET c == Calls(call[1])[call[2]] IN c \in MayFail \/ Refused(c)
    /\ held' = held \ deferred
    /\ deferred' = {}
    /\ call' = NoCall /\ image' = NoImage
    /\ UNCHANGED tokenVars

CheckPasses ==
    /\ call # NoCall
    /\ LET f == call[1]
           c == Calls(f)[call[2]]
           now == (held \cup Acquires(c)) \ Releases(c)
           later == deferred \cup Defers(c)
           last == call[2] = Len(Calls(f)) IN
        /\ ~Refused(c)
        /\ held' = IF last THEN now \ later ELSE now
        /\ deferred' = IF last THEN {} ELSE later
        /\ call' = IF last THEN NoCall ELSE <<f, call[2] + 1>>
        /\ image' = IF last THEN NoImage ELSE image
    /\ UNCHANGED tokenVars

-----------------------------------------------------------------------------

Service ==
    \/ \E mode \in Modes : Run(mode)
    \/ LoadToken \/ TruncateToken \/ FillToken \/ End

Next ==
    \/ Service
    \/ \E p \in Processes : ensureSecureDir(p)
    \/ Install \/ Register \/ Uninstall
    \/ ReadToken
    \/ \E content \in {NoToken, Short, 0} : Foreign(content)
    \/ \E f \in Functions, facts \in Images : Check(f, facts)
    \/ CheckFails \/ CheckPasses

Spec == Init /\ [][Next]_vars

-----------------------------------------------------------------------------
(* Properties.                                                             *)

\* The file the app reads holds the token the running server compares with,
\* whatever an installer does at the same time and wherever an earlier start was
\* killed (security.go, loadOrCreateToken; acl.go, the purge).
TokenAgrees == at["service"] = "running" => file = token

\* The app reads the token once: a copy taken from a running service stays good
\* through every restart, crash and reinstallation.
ClientAgrees == proven /\ at["service"] = "running" => app = token

\* A check that is over holds no process, message, store, certificate or trust
\* state, on whichever call it gave up.
ChecksRelease == call = NoCall => held = {}
=============================================================================
