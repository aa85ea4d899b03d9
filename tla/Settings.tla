------------------------------ MODULE Settings ------------------------------
(***************************************************************************)
(* The user's settings: SettingsNotifier in memory, the row in SQLite, and *)
(* the auto-start flag that BootReceiver reads before any Dart code runs.  *)
(*                                                                         *)
(* A task is one change made in the UI: a patch of the settings in memory, *)
(* or ToggleKillSwitchUseCase, which reads and writes the row itself and   *)
(* hands the result to adopt().  Tasks interleave at every await.          *)
(***************************************************************************)
EXTENDS Naturals, Sequences

CONSTANTS
    Tasks,       \* changes that may be in flight together
    NoRow,       \* no app_settings row, or one that does not parse
    Moves,       \* subset of AllMoves: what users and devices do in this instance
    MaxChanges,  \* bound: changes the user makes
    MaxStarts    \* bound: times the app is started

\* "fail": a statement of the database throws; "throw": applying the kill switch to
\* the OS does; "crash": the process is killed; "reboot": the device restarts.
AllMoves == {"patch", "toggle", "fail", "throw", "crash", "reboot"}

ASSUME MovesAssumption == Moves \subseteq AllMoves
ASSUME BoundsAssumption == {MaxChanges, MaxStarts} \subseteq Nat
ASSUME TasksAssumption == "load" \notin Tasks
ASSUME NoRowAssumption == NoRow \notin [killSwitch : BOOLEAN, autoWifi : BOOLEAN]

VARIABLES
    running, loaded,  \* the app runs; its first load has finished
    mem,              \* SettingsNotifier.state
    disk,             \* the app_settings row
    pc, value,        \* each task: where it is, the settings it carries
    asked,            \* each task: the kill-switch position it was asked for
    db, answers,      \* tasks whose statement waits, tasks whose answer waits
    channel, flag,    \* setAutoStart calls not yet stored, the stored auto_start
    boot, rested,     \* what the last reboot led to; history: it found the app at rest
    thrown, failed,   \* history: a toggle, a statement threw since the app was started
    overlapped,       \* history: a patch was made on settings that were not Current
    chosen,           \* history: what the user last chose, of what was not lost in a crash
    changes, starts   \* counters for the bounds

appVars == <<running, loaded, mem>>
taskVars == <<pc, value, asked>>
dbVars == <<db, answers>>
flagVars == <<channel, flag>>
bootVars == <<boot, rested>>
faultVars == <<thrown, failed, overlapped>>
history == <<faultVars, chosen>>
boundVars == <<changes, starts>>
vars == <<appVars, disk, taskVars, dbVars, flagVars, bootVars, history, boundVars>>

AppSettings == [killSwitch : BOOLEAN, autoWifi : BOOLEAN]
Defaults == [killSwitch |-> FALSE, autoWifi |-> FALSE]
Loader == "load"
All == Tasks \cup {Loader}

\* Mutant: load() without the fallback to the defaults.
LoadRaw(row) == row

\* load(): a missing or corrupt row gives the defaults.
Load(row) == IF row = NoRow THEN Defaults ELSE row

\* The decision mirrored to the native side.
AutoStart(s) == s.killSwitch \/ s.autoWifi

\* Mutant: vpnBoot forgets the setting that was added last.
RearmsKillSwitch(s) == s.killSwitch

\* The same decision, written out once more in vpnBoot.
Rearms(s) == s.killSwitch \/ s.autoWifi

Toggling == {"toggleReading", "toggleRead", "toggleWriting", "toggleWritten"}

TypeOK ==
    /\ {running, loaded, flag, rested, thrown, failed, overlapped} \subseteq BOOLEAN
    /\ {mem, chosen} \subseteq AppSettings
    /\ disk \in AppSettings \cup {NoRow}
    /\ pc \in [All -> Toggling \cup {"idle", "reading", "read", "writing", "written", "failed"}]
    /\ value \in [All -> AppSettings] /\ asked \in [All -> BOOLEAN]
    /\ {db, answers} \subseteq Seq(All) /\ channel \in Seq(BOOLEAN)
    /\ boot \in {"none", "declined", "headless", "refused", "gaveUp", "connected"}
    /\ changes \in 0 .. MaxChanges /\ starts \in 0 .. MaxStarts

\* A fresh installation.
Init ==
    /\ running = FALSE /\ loaded = FALSE /\ mem = Defaults
    /\ disk = NoRow /\ chosen = Defaults
    /\ thrown = FALSE /\ failed = FALSE /\ overlapped = FALSE
    /\ pc = [t \in All |-> "idle"] /\ value = [t \in All |-> Defaults]
    /\ asked = [t \in All |-> FALSE]
    /\ db = <<>> /\ answers = <<>>
    /\ channel = <<>> /\ flag = FALSE /\ boot = "none" /\ rested = FALSE
    /\ changes = 0 /\ starts = 0

-----------------------------------------------------------------------------
(* SettingsNotifier.                                                       *)

\* _syncBootFlag: an invocation nobody awaits.
SyncBootFlag(s) == channel' = Append(channel, AutoStart(s))

\* The constructor: defaults until _load() has the row.
Start ==
    /\ ~running /\ starts < MaxStarts
    /\ running' = TRUE /\ loaded' = FALSE /\ mem' = Defaults
    /\ pc' = [pc EXCEPT ![Loader] = "reading"]
    /\ db' = Append(db, Loader)
    /\ starts' = starts + 1
    /\ UNCHANGED <<disk, value, asked, answers, flagVars, bootVars, history, changes>>

\* Mutant: the flag is mirrored when a setting changes, and not on start.
LoadDoneUnmirrored ==
    /\ answers # <<>> /\ Head(answers) = Loader /\ pc[Loader] = "read"
    /\ answers' = Tail(answers)
    /\ pc' = [pc EXCEPT ![Loader] = "idle"]
    /\ mem' = value[Loader] /\ loaded' = TRUE
    /\ UNCHANGED <<running, disk, value, asked, db, flagVars, bootVars, history, boundVars>>

\* The rest of _load().
LoadDone ==
    /\ answers # <<>> /\ Head(answers) = Loader /\ pc[Loader] = "read"
    /\ answers' = Tail(answers)
    /\ pc' = [pc EXCEPT ![Loader] = "idle"]
    /\ mem' = value[Loader] /\ loaded' = TRUE
    /\ SyncBootFlag(value[Loader])
    /\ UNCHANGED <<running, disk, value, asked, db, flag, bootVars, history, boundVars>>

MayChange(t) == running /\ pc[t] = "idle" /\ changes < MaxChanges

\* For the history: the settings in memory, all of which a patch is about to save,
\* miss nothing that another task has written or is going to write.
Current == loaded /\ ~thrown /\ \A u \in Tasks : pc[u] \notin Toggling

\* Mutant: update() saves the settings it is about to replace.
PatchSavesOld(t, on) ==
    /\ "patch" \in Moves /\ MayChange(t)
    /\ mem' = [mem EXCEPT !.autoWifi = on] /\ value' = [value EXCEPT ![t] = mem]
    /\ pc' = [pc EXCEPT ![t] = "writing"] /\ db' = Append(db, t)
    /\ chosen' = [chosen EXCEPT !.autoWifi = on] /\ changes' = changes + 1
    /\ overlapped' = (overlapped \/ ~Current)
    /\ UNCHANGED <<running, loaded, disk, asked, answers, flagVars, bootVars, thrown, failed, starts>>

\* patch(): the new settings are shown at once, and their save is queued.
Patch(t, on) ==
    LET next == [mem EXCEPT !.autoWifi = on] IN
    /\ "patch" \in Moves /\ MayChange(t)
    /\ mem' = next /\ value' = [value EXCEPT ![t] = next]
    /\ pc' = [pc EXCEPT ![t] = "writing"] /\ db' = Append(db, t)
    /\ chosen' = [chosen EXCEPT !.autoWifi = on] /\ changes' = changes + 1
    /\ overlapped' = (overlapped \/ ~Current)
    /\ UNCHANGED <<running, loaded, disk, asked, answers, flagVars, bootVars, thrown, failed, starts>>

\* The save is done: mirror the flag.
PatchDone(t) ==
    /\ answers # <<>> /\ Head(answers) = t /\ pc[t] = "written"
    /\ answers' = Tail(answers)
    /\ pc' = [pc EXCEPT ![t] = "idle"]
    /\ SyncBootFlag(value[t])
    /\ UNCHANGED <<appVars, disk, value, asked, db, flag, bootVars, history, boundVars>>

-----------------------------------------------------------------------------
(* ToggleKillSwitchUseCase, and the form that adopts what it returns.      *)

\* The switch is flicked: execute() queues its load().
Toggle(t, on) ==
    /\ "toggle" \in Moves /\ MayChange(t)
    /\ asked' = [asked EXCEPT ![t] = on]
    /\ pc' = [pc EXCEPT ![t] = "toggleReading"] /\ db' = Append(db, t)
    /\ chosen' = [chosen EXCEPT !.killSwitch = on] /\ changes' = changes + 1
    /\ UNCHANGED <<appVars, disk, value, answers, flagVars, bootVars, faultVars, starts>>

\* Mutant: copyWith's result is dropped, and the row is saved as it was read.
ToggleSaveUnchanged(t) ==
    /\ answers # <<>> /\ Head(answers) = t /\ pc[t] = "toggleRead"
    /\ answers' = Tail(answers)
    /\ pc' = [pc EXCEPT ![t] = "toggleWriting"] /\ db' = Append(db, t)
    /\ UNCHANGED <<appVars, disk, value, asked, flagVars, bootVars, history, boundVars>>

\* load() has returned: change the kill switch in that copy and save it.
ToggleSave(t) ==
    /\ answers # <<>> /\ Head(answers) = t /\ pc[t] = "toggleRead"
    /\ answers' = Tail(answers)
    /\ value' = [value EXCEPT ![t].killSwitch = asked[t]]
    /\ pc' = [pc EXCEPT ![t] = "toggleWriting"] /\ db' = Append(db, t)
    /\ UNCHANGED <<appVars, disk, asked, flagVars, bootVars, history, boundVars>>

\* The save is done.  Applying the block to a live tunnel is in Connection.
Adopt(t) ==
    /\ answers # <<>> /\ Head(answers) = t /\ pc[t] = "toggleWritten"
    /\ answers' = Tail(answers)
    /\ pc' = [pc EXCEPT ![t] = "idle"]
    /\ mem' = value[t]
    /\ SyncBootFlag(value[t])
    /\ UNCHANGED <<running, loaded, disk, value, asked, db, flag, bootVars, history, boundVars>>

\* setKillSwitch throws out of execute(), so nothing is adopted.
ToggleThrows(t) ==
    /\ "throw" \in Moves
    /\ answers # <<>> /\ Head(answers) = t /\ pc[t] = "toggleWritten"
    /\ answers' = Tail(answers)
    /\ pc' = [pc EXCEPT ![t] = "idle"] /\ thrown' = TRUE
    /\ UNCHANGED <<appVars, disk, value, asked, db, flagVars, bootVars, failed, overlapped,
                   chosen, boundVars>>

\* An exception of load() or save() ends the change, or the first load, where it is:
\* what patch() has shown stays shown, and nothing is mirrored or adopted.
GiveUp(t) ==
    /\ answers # <<>> /\ Head(answers) = t /\ pc[t] = "failed"
    /\ answers' = Tail(answers)
    /\ pc' = [pc EXCEPT ![t] = "idle"]
    /\ UNCHANGED <<appVars, disk, value, asked, db, flagVars, bootVars, history, boundVars>>

-----------------------------------------------------------------------------
(* SQLite runs the statements of one connection in the order they came.    *)

Reply(t, answered) ==
    /\ db' = Tail(db) /\ answers' = Append(answers, t)
    /\ pc' = [pc EXCEPT ![t] = answered]

Read ==
    /\ db # <<>>
    /\ LET t == Head(db) IN
        /\ \/ pc[t] = "reading" /\ Reply(t, "read")
           \/ pc[t] = "toggleReading" /\ Reply(t, "toggleRead")
        /\ value' = [value EXCEPT ![t] = Load(disk)]
    /\ UNCHANGED <<appVars, disk, asked, flagVars, bootVars, history, boundVars>>

Write ==
    /\ db # <<>>
    /\ LET t == Head(db) IN
        /\ \/ pc[t] = "writing" /\ Reply(t, "written")
           \/ pc[t] = "toggleWriting" /\ Reply(t, "toggleWritten")
        /\ disk' = value[t]
    /\ UNCHANGED <<appVars, value, asked, flagVars, bootVars, history, boundVars>>

\* The statement at the head throws, and has changed nothing.
Fail ==
    /\ "fail" \in Moves /\ db # <<>>
    /\ Reply(Head(db), "failed")
    /\ failed' = TRUE
    /\ UNCHANGED <<appVars, disk, value, asked, flagVars, bootVars, thrown, overlapped, chosen,
                   boundVars>>

-----------------------------------------------------------------------------
(* The native side.                                                        *)

\* The fastflow/boot handler has run and SharedPreferences are on disk.
StoreFlag ==
    /\ channel # <<>>
    /\ flag' = Head(channel) /\ channel' = Tail(channel)
    /\ UNCHANGED <<appVars, disk, taskVars, dbVars, bootVars, history, boundVars>>

\* The process is gone, and with it all that was not on disk.
Die ==
    /\ running' = FALSE /\ loaded' = FALSE /\ mem' = Defaults
    /\ pc' = [t \in All |-> "idle"] /\ value' = [t \in All |-> Defaults]
    /\ asked' = [t \in All |-> FALSE]
    /\ db' = <<>> /\ answers' = <<>> /\ channel' = <<>>
    /\ thrown' = FALSE /\ failed' = FALSE /\ overlapped' = FALSE
    /\ chosen' = Load(disk)
    /\ UNCHANGED <<disk, flag, boundVars>>

Crash ==
    /\ "crash" \in Moves /\ running
    /\ Die /\ boot' = "none" /\ rested' = FALSE

\* Nothing is under way, in the app or on the way to the native side.
Quiet ==
    /\ running /\ loaded /\ \A t \in All : pc[t] = "idle"
    /\ db = <<>> /\ answers = <<>> /\ channel = <<>>

\* The device restarts and BootReceiver.onReceive reads the flag.
BootReceive ==
    /\ "reboot" \in Moves /\ running
    /\ Die /\ boot' = IF flag THEN "headless" ELSE "declined"
    /\ rested' = (Quiet /\ ~thrown)

\* vpnBoot, in the headless engine, reads the row and decides for itself; then it may
\* find no active profile, or no such profile, or fail to start the tunnel.
VpnBoot ==
    /\ boot = "headless"
    /\ boot' \in {"gaveUp", IF Rearms(Load(disk)) THEN "connected" ELSE "refused"}
    /\ UNCHANGED <<appVars, disk, taskVars, dbVars, flagVars, rested, history, boundVars>>

-----------------------------------------------------------------------------

Change(t) == \E on \in BOOLEAN : Patch(t, on) \/ Toggle(t, on)

Finish(t) == PatchDone(t) \/ ToggleSave(t) \/ Adopt(t) \/ ToggleThrows(t)

Next ==
    \/ Start \/ LoadDone \/ Read \/ Write \/ Fail \/ StoreFlag
    \/ Crash \/ BootReceive \/ VpnBoot
    \/ \E t \in Tasks : Change(t) \/ Finish(t)
    \/ \E t \in All : GiveUp(t)

Spec == Init /\ [][Next]_vars

-----------------------------------------------------------------------------
(* What must hold.                                                         *)

\* Once everything has settled the flag BootReceiver will read says what the row
\* says, whatever patches and toggles have overlapped or failed, and also after a
\* crash between a save and its mirroring.  Only a toggle that threw has saved
\* without mirroring.
BootFlagFollows == Quiet /\ ~thrown => flag = AutoStart(Load(disk))

\* After a device restart that found the app at rest, vpnBoot was launched exactly if
\* the saved settings ask for a tunnel, and did not turn back on reading them: the
\* flag and the two places that decide by the settings agree.
BootAgrees ==
    rested /\ ~running => boot # "refused" /\ (boot = "declined" <=> ~AutoStart(Load(disk)))

\* Once everything has settled the row holds every choice the user made, memory shows
\* it unless a toggle threw, and neither holds anything the user did not choose: among
\* the toggles and patches that may overlap without harm no save writes back a stale
\* copy.  A patch on top of settings that are not Current, and a statement that
\* failed, do harm; see MemoryIsSaved for the first.
ChoicesAreKept ==
    Quiet /\ ~overlapped /\ ~failed =>
        Load(disk) = chosen /\ (~thrown => mem = chosen)

\* Once everything has settled the kill switch on the screen is in the position the
\* user left it in, however patches were made before the load or beside the toggles.
KillSwitchIsShown ==
    Quiet /\ ~thrown /\ ~failed => mem.killSwitch = chosen.killSwitch

-----------------------------------------------------------------------------
(* What a comment promises and the code does not keep.                     *)

\* settings_mgr.dart:10 "Holds the live [AppSettings] and persists every change": once
\* everything has settled, and nothing threw, the settings in memory are in the row.
MemoryIsSaved == Quiet /\ ~thrown /\ ~failed => mem = Load(disk)
=============================================================================
