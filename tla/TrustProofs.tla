---------------------------- MODULE TrustProofs ----------------------------
(***************************************************************************)
(* Proofs about Trust.  That a check releases what it holds is shown for   *)
(* every way the helper is run and every fault; that the tokens agree,     *)
(* where the helper runs as a service and the owner of a directory can be  *)
(* read.                                                                   *)
(***************************************************************************)
EXTENDS Trust, TLAPS

-----------------------------------------------------------------------------
(* The checks.                                                             *)

\* The step a function's call n is, and the functions' lengths.
LEMMA TheCalls ==
    /\ Len(Calls("verifyClient")) = 3 /\ Len(Calls("verifyAuthenticode")) = 3
    /\ Len(Calls("verifySignerCN")) = 6
    /\ Calls("verifyClient")[1] = "OpenProcess" /\ Calls("verifyClient")[2] = "QueryImageName"
    /\ Calls("verifyClient")[3] = "ComparePath"
    /\ Calls("verifyAuthenticode")[1] = "WinVerifyTrust"
    /\ Calls("verifyAuthenticode")[2] = "CloseState" /\ Calls("verifyAuthenticode")[3] = "Result"
    /\ Calls("verifySignerCN")[1] = "CryptQueryObject" /\ Calls("verifySignerCN")[2] = "MsgSize"
    /\ Calls("verifySignerCN")[3] = "MsgData" /\ Calls("verifySignerCN")[4] = "FindCert"
    /\ Calls("verifySignerCN")[5] = "SubjectSize" /\ Calls("verifySignerCN")[6] = "CompareSubject"
BY DEF Calls, verifyClient, verifyAuthenticode, verifySignerCN

\* While a check is under way it holds what it has deferred, and between
\* WinVerifyTrust and the call that closes its state that state too.
HeldInv ==
    /\ call = NoCall \/ \E f \in Functions : \E n \in 1 .. Len(Calls(f)) : call = <<f, n>>
    /\ "state" \notin deferred
    /\ call = NoCall => held = {} /\ deferred = {}
    /\ call # NoCall =>
        held = deferred \cup (IF call = <<"verifyAuthenticode", 2>> THEN {"state"} ELSE {})

\* A call of a check keeps that balance, whether it fails or passes.
LEMMA HeldStep == HeldInv /\ (CheckFails \/ CheckPasses) => HeldInv'
<1> SUFFICES ASSUME HeldInv, CheckFails \/ CheckPasses PROVE HeldInv'
  OBVIOUS
<1>1. PICK f \in Functions : \E n \in 1 .. Len(Calls(f)) : call = <<f, n>>
  BY DEF HeldInv, CheckFails, CheckPasses
<1>2. PICK n \in 1 .. Len(Calls(f)) : call = <<f, n>>
  BY <1>1
<1>3. call # NoCall /\ call[1] = f /\ call[2] = n
  BY <1>2 DEF Functions, NoCall
<1> DEFINE c == Calls(f)[n]
<1>4. CASE CheckFails
  <2>1. c \in MayFail \/ Refused(c)
    BY <1>3, <1>4 DEF CheckFails
  <2>2. ~(f = "verifyAuthenticode" /\ n = 2)
    BY <2>1, TheCalls DEF MayFail, Refused
  <2>3. held = deferred
    BY <1>2, <1>3, <2>2 DEF HeldInv
  <2> QED
    BY <1>4, <2>3 DEF HeldInv, CheckFails
<1>5. CASE CheckPasses
  <2> DEFINE now == (held \cup Acquires(c)) \ Releases(c)
             later == deferred \cup Defers(c)
             last == n = Len(Calls(f))
  <2>1. /\ held' = IF last THEN now \ later ELSE now
        /\ deferred' = IF last THEN {} ELSE later
        /\ call' = IF last THEN NoCall ELSE <<f, n + 1>>
    BY <1>3, <1>5 DEF CheckPasses
  <2>2. CASE last
    <3>1. now \subseteq later
      BY <1>2, <1>3, <2>2, TheCalls DEF Functions, HeldInv, Acquires, Releases, Defers
    <3>2. call' = NoCall /\ held' = {} /\ deferred' = {}
      BY <2>1, <2>2, <3>1
    <3> QED
      BY <3>2 DEF HeldInv
  <2>3. CASE ~last
    <3>1. n + 1 \in 1 .. Len(Calls(f)) /\ <<f, n + 1>> # NoCall
      BY <1>2, <2>3, TheCalls DEF Functions, NoCall
    <3>2. now = later \cup (IF <<f, n + 1>> = <<"verifyAuthenticode", 2>> THEN {"state"} ELSE {})
      <4>1. CASE f = "verifyClient"
        BY <1>2, <1>3, <2>3, <4>1, TheCalls DEF HeldInv, Acquires, Releases, Defers
      <4>2. CASE f = "verifyAuthenticode"
        BY <1>2, <1>3, <2>3, <4>2, TheCalls DEF HeldInv, Acquires, Releases, Defers
      <4>3. CASE f = "verifySignerCN"
        BY <1>2, <1>3, <2>3, <4>3, TheCalls DEF HeldInv, Acquires, Releases, Defers
      <4> QED
        BY <4>1, <4>2, <4>3 DEF Functions
    <3>3. "state" \notin later
      BY DEF HeldInv, Defers
    <3> QED
      BY <2>1, <2>3, <3>1, <3>2, <3>3 DEF HeldInv
  <2> QED
    BY <2>2, <2>3
<1> QED
  BY <1>4, <1>5

\* The balance holds in every reachable state.
LEMMA Balanced == Spec => []HeldInv
<1>1. Init => HeldInv
  BY DEF Init, HeldInv, NoCall
<1>2. HeldInv /\ [Next]_vars => HeldInv'
  <2> SUFFICES ASSUME HeldInv, [Next]_vars PROVE HeldInv'
    OBVIOUS
  <2>1. CASE UNCHANGED checkVars
    BY <2>1 DEF checkVars, HeldInv
  <2>2. CASE End
    BY <2>2 DEF End, HeldInv
  <2>3. ASSUME NEW f \in Functions, NEW facts \in Images, Check(f, facts) PROVE HeldInv'
    <3>1. call' = <<f, 1>> /\ held' = held /\ deferred' = deferred /\ held = {} /\ deferred = {}
      BY <2>3 DEF Check, HeldInv
    <3>2. 1 \in 1 .. Len(Calls(f)) /\ <<f, 1>> # NoCall /\ <<f, 1>> # <<"verifyAuthenticode", 2>>
      BY TheCalls DEF Functions, NoCall
    <3> QED
      BY <3>1, <3>2 DEF HeldInv
  <2>4. ASSUME NEW mode \in Modes, Run(mode) PROVE UNCHANGED checkVars
    BY <2>4 DEF Run, SecureVars
  <2>5. ASSUME NEW p \in Processes, ensureSecureDir(p) PROVE UNCHANGED checkVars
    BY <2>5 DEF ensureSecureDir, CreateDirectory, CheckOwner, Reclaim, Purge, SecureVars
  <2>6. ASSUME NEW content, Foreign(content) PROVE UNCHANGED checkVars
    BY <2>6 DEF Foreign, SecureVars
  <2>7. LoadToken \/ TruncateToken \/ FillToken \/ Install \/ Register \/ Uninstall \/ ReadToken
        => UNCHANGED checkVars
    BY DEF LoadToken, TruncateToken, FillToken, Install, Register, Uninstall, ReadToken, SecureVars
  <2> QED
    BY <2>1, <2>2, <2>3, <2>4, <2>5, <2>6, <2>7, HeldStep DEF Next, Service, vars
<1> QED
  BY <1>1, <1>2, PTL DEF Spec

\* A check that is over holds nothing, on whichever call it gave up and whatever
\* the image is.
THEOREM Releasing == Spec => []ChecksRelease
<1>1. HeldInv => ChecksRelease
  BY DEF HeldInv, ChecksRelease
<1> QED
  BY <1>1, Balanced, PTL

-----------------------------------------------------------------------------
(* Types.                                                                  *)

\* Counting one more token within the bound, and the marks that are no tokens.
LEMMA TokenFacts ==
    /\ \A n \in Tokens : n < MaxTokens => n + 1 \in Tokens
    /\ 0 \in Tokens /\ NoToken \notin Tokens /\ Empty \notin Tokens /\ Short \notin Tokens
    /\ NoToken # Empty /\ Short # Empty /\ Tokens \subseteq Contents
    /\ {NoToken, Empty, Short} \subseteq Contents
BY TokensAssumption DEF Tokens, NoToken, Empty, Short, Contents

\* Going on to the step after this one stays among the steps.
LEMMA AtTypes ==
    ASSUME TypeOK, NEW p \in Processes,
           \/ \E s \in SecureSteps \cup {"off", "read", "truncate", "fill", "running", "scm"} : Goto(p, s)
           \/ \E ok \in BOOLEAN : Secured(p, ok)
    PROVE  /\ at' \in [Processes -> SecureSteps \cup {"off", "read", "truncate", "fill", "running", "scm"}]
           /\ caller' \in [Processes -> Callers]
BY DEF TypeOK, Goto, Secured, SecureSteps, Callers

\* Every action keeps the variables in their types.
LEMMA TypeStep == TypeOK /\ HeldInv /\ [Next]_vars => TypeOK'
<1> SUFFICES ASSUME TypeOK, HeldInv, [Next]_vars PROVE TypeOK'
  OBVIOUS
<1> USE TokenFacts DEF TypeOK, SecureVars, tokenVars, checkVars
<1>1. ASSUME NEW mode \in Modes, Run(mode) PROVE TypeOK'
  BY <1>1 DEF Run, SecureSteps, Callers
<1>2. CASE LoadToken
  <2>1. Goto("service", "running") \/ Goto("service", "truncate")
    BY <1>2 DEF LoadToken
  <2> QED
    BY <1>2, <2>1, AtTypes DEF LoadToken, Processes
<1>3. CASE TruncateToken
  <2>1. Goto("service", "fill") \/ Goto("service", "off")
    BY <1>3 DEF TruncateToken
  <2> QED
    BY <1>3, <2>1, AtTypes DEF TruncateToken, Processes
<1>4. CASE FillToken
  <2>1. Goto("service", "running") \/ Goto("service", "off")
    BY <1>4 DEF FillToken
  <2> QED
    BY <1>4, <2>1, AtTypes DEF FillToken, Processes
<1>5. CASE End
  BY <1>5, AtTypes DEF End, Processes, NoImage, Images
<1>6. ASSUME NEW p \in Processes, ensureSecureDir(p) PROVE TypeOK'
  <2>1. (\E s \in {"owner", "reclaim", "purge"} : Goto(p, s)) \/ (\E ok \in BOOLEAN : Secured(p, ok))
    BY <1>6 DEF ensureSecureDir, CreateDirectory, CheckOwner, Reclaim, Purge
  <2>2. /\ at' \in [Processes -> SecureSteps \cup {"off", "read", "truncate", "fill", "running", "scm"}]
        /\ caller' \in [Processes -> Callers]
    BY <2>1, AtTypes DEF SecureSteps
  <2> QED
    BY <1>6, <2>2 DEF ensureSecureDir, CreateDirectory, CheckOwner, Reclaim, Purge
<1>7. CASE Install
  BY <1>7, AtTypes DEF Install, Processes, SecureSteps
<1>8. CASE Register
  BY <1>8, AtTypes DEF Register, Processes
<1>9. CASE Uninstall
  BY <1>9 DEF Uninstall
<1>10. CASE ReadToken
  BY <1>10 DEF ReadToken
<1>11. ASSUME NEW content \in {NoToken, Short, 0}, Foreign(content) PROVE TypeOK'
  BY <1>11 DEF Foreign
<1>12. ASSUME NEW f \in Functions, NEW facts \in Images, Check(f, facts) PROVE TypeOK'
  BY <1>12 DEF Check
<1>13. CASE CheckFails
  BY <1>13 DEF CheckFails, NoImage, Images
<1>14. CASE UNCHANGED vars
  BY <1>14 DEF vars
<1>15. CASE CheckPasses
  <2>1. PICK f \in Functions : \E n \in 1 .. Len(Calls(f)) : call = <<f, n>>
    BY <1>15 DEF HeldInv, CheckPasses
  <2>2. PICK n \in 1 .. Len(Calls(f)) : call = <<f, n>>
    BY <2>1
  <2>3. n # Len(Calls(f)) => <<f, n + 1>> \in Functions \X (1 .. 6)
    <3>1. Len(Calls(f)) \in {3, 6}
      BY TheCalls DEF Functions
    <3>2. CASE Len(Calls(f)) = 3
      <4>1. n \in 1 .. 3
        BY <3>2
      <4> QED
        BY <3>2, <4>1
    <3>3. CASE Len(Calls(f)) = 6
      <4>1. n \in 1 .. 6
        BY <3>3
      <4> QED
        BY <3>3, <4>1
    <3> QED
      BY <3>1, <3>2, <3>3
  <2>4. call[1] = f /\ call[2] = n
    BY <2>2
  <2>5. call' \in {NoCall} \cup (Functions \X (1 .. 6)) /\ image' \in Images
    BY <1>15, <2>3, <2>4 DEF CheckPasses, NoImage, Images
  <2>6. \A c : Acquires(c) \cup Defers(c) \subseteq {"process", "state", "msg", "store", "cert"}
    BY DEF Acquires, Defers
  <2>7. {held', deferred'} \subseteq SUBSET {"process", "state", "msg", "store", "cert"}
    BY <1>15, <2>6 DEF CheckPasses
  <2> QED
    BY <1>15, <2>5, <2>7 DEF CheckPasses
<1> QED
  BY <1>1, <1>2, <1>3, <1>4, <1>5, <1>6, <1>7, <1>8, <1>9, <1>10, <1>11, <1>12, <1>13, <1>14, <1>15
  DEF Next, Service

\* Every variable keeps its type: the tokens, the steps of the two processes and
\* what a check holds.
THEOREM Types == Spec => []TypeOK
<1>1. Init => TypeOK
  <2> SUFFICES ASSUME Init PROVE TypeOK
    OBVIOUS
  <2>1. file \in Contents /\ token \in Tokens \cup {NoToken} /\ generated \in Tokens
        /\ app \in Contents \ {Empty}
    BY TokenFacts DEF Init
  <2>2. at \in [Processes -> {"off"}] /\ caller \in [Processes -> Callers]
    BY DEF Init, Callers
  <2> QED
    BY <2>1, <2>2 DEF Init, TypeOK, NoImage, Images
<1>2. TypeOK /\ HeldInv /\ [Next]_vars => TypeOK'
  BY TypeStep
<1> QED
  BY <1>1, <1>2, Balanced, PTL DEF Spec

-----------------------------------------------------------------------------
(* The token.                                                              *)

\* What the theorems about the token are for: the owner of a directory can be
\* read, and the helper runs as the registered service.
Usual == "owner" \notin Faults /\ "console" \notin Modes

\* The directory is taken before the service is registered, and nobody but the
\* first installation ever purges it.
DirInv ==
    /\ installed \/ at["service"] # "off" \/ proven \/ at["installer"] = "scm" => dir = "trusted"
    /\ at["installer"] = "reclaim" => dir # "trusted"
    /\ at["installer"] = "purge" => ~installed /\ at["service"] = "off" /\ ~proven /\ dir = "trusted"
    /\ at["service"] \notin {"reclaim", "purge", "scm"}
    /\ at["installer"] \in SecureSteps \cup {"off", "scm"}
    /\ caller["installer"] = "install" /\ caller["service"] # "install"

\* The file holds the token of the service that runs, which the app's copy is too;
\* it is written only when it holds none.
FileInv ==
    /\ at["service"] \in {"truncate", "fill"} => file \notin Tokens
    /\ at["service"] = "running" => token \in Tokens /\ file = token
    /\ proven => app \in Tokens /\ file = app

\* Every step of either process, of the app and of others keeps both.
LEMMA TokenStep ==
    ASSUME Usual, TypeOK, DirInv, FileInv, [Next]_vars PROVE DirInv' /\ FileInv'
<1> USE TokenFacts DEF TypeOK, DirInv, FileInv, SecureVars, Processes
<1>1. ASSUME NEW mode \in Modes, Run(mode) PROVE DirInv' /\ FileInv'
  <2>1. mode = "service"
    BY ModesAssumption DEF Usual
  <2> QED
    BY <1>1, <2>1 DEF Run
<1>2. CASE LoadToken
  BY <1>2 DEF LoadToken, Goto
<1>3. CASE TruncateToken
  BY <1>3 DEF TruncateToken, Goto
<1>4. CASE FillToken
  BY <1>4 DEF FillToken, Goto
<1>5. CASE End
  BY <1>5 DEF End, Goto
<1>6. CASE ensureSecureDir("service")
  <2>1. at["service"] \in {"mkdir", "owner"} /\ dir = "trusted"
    BY <1>6 DEF ensureSecureDir, CreateDirectory, CheckOwner, Reclaim, Purge
  <2>2. CASE CreateDirectory("service")
    BY <2>1, <2>2 DEF CreateDirectory, Goto, Secured
  <2>3. CASE CheckOwner("service")
    <3>1. FALSE \notin verifyDirTrusted
      BY <2>1 DEF verifyDirTrusted, Usual
    <3>2. Secured("service", TRUE) /\ UNCHANGED <<dir, file, token, installed, app, proven>>
      BY <2>3, <3>1 DEF CheckOwner
    <3>3. \/ at' = [at EXCEPT !["service"] = "mkdir"] /\ caller' = [caller EXCEPT !["service"] = "token"]
          \/ at' = [at EXCEPT !["service"] = "read"] /\ caller' = caller
      BY <3>2 DEF Secured, Goto, Callers
    <3> QED
      BY <2>1, <3>2, <3>3
  <2> QED
    BY <1>6, <2>1, <2>2, <2>3 DEF ensureSecureDir, Reclaim, Purge
<1>7. CASE ensureSecureDir("installer")
  <2>1. CASE CreateDirectory("installer")
    BY <2>1 DEF CreateDirectory, Goto, Secured, SecureSteps
  <2>2. CASE CheckOwner("installer")
    BY <2>2 DEF CheckOwner, verifyDirTrusted, Usual, Goto, Secured, SecureSteps
  <2>3. CASE Reclaim("installer")
    BY <2>3 DEF Reclaim, Goto, Secured, SecureSteps
  <2>4. CASE Purge("installer")
    BY <2>4 DEF Purge, Goto, Secured, SecureSteps
  <2> QED
    BY <1>7, <2>1, <2>2, <2>3, <2>4 DEF ensureSecureDir
<1>8. CASE Install
  BY <1>8 DEF Install, Goto, SecureSteps
<1>9. CASE Register
  BY <1>9 DEF Register, Goto
<1>10. CASE Uninstall
  BY <1>10 DEF Uninstall
<1>11. CASE ReadToken
  BY <1>11 DEF ReadToken
<1>12. ASSUME NEW content \in {NoToken, Short, 0}, Foreign(content) PROVE DirInv' /\ FileInv'
  BY <1>12 DEF Foreign
<1>13. CASE UNCHANGED tokenVars
  BY <1>13 DEF tokenVars
<1>14. ASSUME NEW f \in Functions, NEW facts \in Images, Check(f, facts) PROVE UNCHANGED tokenVars
  BY <1>14 DEF Check
<1>15. CheckFails \/ CheckPasses => UNCHANGED tokenVars
  BY DEF CheckFails, CheckPasses
<1> QED
  BY <1>1, <1>2, <1>3, <1>4, <1>5, <1>6, <1>7, <1>8, <1>9, <1>10, <1>11, <1>12, <1>13, <1>14, <1>15
  DEF Next, Service, vars

\* Under those conditions both hold in every reachable state.
LEMMA TokenInvariant == ASSUME Usual PROVE Spec => [](DirInv /\ FileInv)
<1>1. Init => DirInv /\ FileInv
  BY DEF Init, DirInv, FileInv, Processes, SecureSteps
<1>2. TypeOK /\ DirInv /\ FileInv /\ [Next]_vars => DirInv' /\ FileInv'
  BY TokenStep
<1> QED
  BY <1>1, <1>2, Types, PTL DEF Spec

\* A running service and the file the app reads agree on the token, whatever the
\* installer does at the same time and wherever an earlier start was killed.
THEOREM TokensAgree == ASSUME Usual PROVE Spec => []TokenAgrees
<1>1. FileInv => TokenAgrees
  BY DEF FileInv, TokenAgrees
<1> QED
  BY <1>1, TokenInvariant, PTL

\* The token the app read once from a running service is that of every later run.
THEOREM CopyStaysGood == ASSUME Usual PROVE Spec => []ClientAgrees
<1>1. FileInv => ClientAgrees
  BY DEF FileInv, ClientAgrees
<1> QED
  BY <1>1, TokenInvariant, PTL
=============================================================================
