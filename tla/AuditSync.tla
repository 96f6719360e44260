------------------------------- MODULE AuditSync -------------------------------
(***************************************************************************)
(* The upload of the intent filter's audit.  Every verdict is a row of     *)
(* intent-audit.jsonl; every half hour the days that have ended are sent,  *)
(* one object a day, and a progress file says how far.                     *)
(*                                                                         *)
(* A run holds the lock of the runtime from its first file to its last, so *)
(* settings and revocations wait for it; the engine that writes the rows   *)
(* has another lock, and the clock none.  Contents and encryption are left *)
(* out: an object is the set of rows in it.                                *)
(***************************************************************************)
EXTENDS Naturals, FiniteSets

CONSTANTS
    DayLen,      \* ticks of the clock in a day
    BackoffMax,  \* RETRY_MAX_SECS; RETRY_BASE_SECS is one tick
    Catchup,     \* MAX_CATCHUP_DAYS
    FileMax,     \* rows in a file of max_bytes
    MaxHour, MaxRows, MaxFaults, MaxChoices   \* bounds

ASSUME AuditAssumption ==
    /\ {DayLen, BackoffMax, Catchup, FileMax} \subseteq Nat \ {0}
    /\ {MaxHour, MaxRows, MaxFaults, MaxChoices} \subseteq Nat

VARIABLES
    hour,
    live, rolled,    \* intent-audit.jsonl and its .1
    wrote,           \* rows written
    prefs, token,    \* audit-sync.json; whether there is a token
    on,              \* prefs.enabled, in memory
    progress,        \* intent-audit-sync.json: {} when there is none
    devices,         \* device ids made
    run,             \* the run under way
    server,          \* the objects uploaded
    revoked, tried, wish, late, unwritten, \* history
    faults,          \* bound: crashes, writes that fail, files damaged
    choices          \* bound: settings changed, uploads revoked

rows      == <<live, rolled, wrote, late>>
choice    == <<prefs, on, wish, unwritten>>
device    == <<progress, devices>>
uploads   == <<server, revoked, tried>>
bounds    == <<faults, choices>>
auditVars == <<hour, rows, choice, token, device, run, uploads, bounds>>

Today == hour \div DayLen + 1

New(d) == [device |-> d, last |-> 0, at |-> 0, fails |-> 0, skipped |-> {}]

(* Cut short: read as an error, never as a file that is not there.         *)
Torn == New(0)

(* What the user could say of the attempts: the last one, and the last one *)
(* whose outcome is not lost.                                              *)
Nothing == [at |-> 0, fails |-> 0]

Attempt(fails) == tried' = [tried EXCEPT !.now = [at |-> run.at, fails |-> fails]]

Forgotten == tried' = LET known == IF progress' = {Torn} THEN Nothing ELSE tried.kept
                   IN  [now |-> known, kept |-> known]

Running(phase, read, todo, at, st) ==
    [phase |-> phase, rows |-> read, todo |-> todo, at |-> at, st |-> st]

Resting == Running("none", {}, {}, 0, Torn)

Free == run.phase = "none"

ensure_state ==
    IF progress = {} THEN progress' = {New(devices + 1)} /\ devices' = devices + 1
    ELSE UNCHANGED device

Backoff(n) == IF 2 ^ (n - 1) < BackoffMax THEN 2 ^ (n - 1) ELSE BackoffMax

retry_allowedAtOnce(st) == st.fails <= 1 \/ hour >= st.at + Backoff(st.fails)

retry_allowed(st) == st.fails = 0 \/ hour >= st.at + Backoff(st.fails)

(* The days to send, and the days too old to be sent.                      *)
FinishedDaysAndToday(read, last) == {r.day : r \in read} \cap (last + 1 .. Today)

FinishedDays(read, last) == {r.day : r \in read} \cap (last + 1 .. Today - 1)

Latest(days) == {d \in days : Cardinality({e \in days : e >= d}) <= Catchup}

Fault == faults < MaxFaults /\ faults' = faults + 1 /\ UNCHANGED choices

Choice == Free /\ choices < MaxChoices /\ choices' = choices + 1

AuditInit ==
    /\ hour = 0 /\ live = {} /\ rolled = {} /\ wrote = 0 /\ late = {}
    /\ prefs = "none" /\ on = FALSE /\ wish = FALSE /\ unwritten = FALSE
    /\ token \in BOOLEAN /\ progress = {} /\ devices = 0 /\ run = Resting
    /\ server = {} /\ revoked = {}
    /\ tried = [now |-> Nothing, kept |-> Nothing]
    /\ faults = 0 /\ choices = 0

------------------------------------------------------------------------------
(* The engine writes *)

Hour == hour < MaxHour /\ hour' = hour + 1
        /\ UNCHANGED <<rows, choice, token, device, run, uploads, bounds>>

(* A tick of the engine reads the clock once, then asks the gateway, then  *)
(* writes: perhaps after midnight.  A file that has grown too long is       *)
(* moved over the one before it.                                           *)
Record(day) ==
    LET row == [day |-> day, n |-> wrote + 1]
    IN  /\ wrote < MaxRows /\ wrote' = wrote + 1
        /\ IF Cardinality(live) < FileMax
           THEN live' = live \cup {row} /\ UNCHANGED rolled
           ELSE rolled' = live /\ live' = {row}
        /\ late' = IF day < Today \/ run.phase = "reading" THEN late \cup {row} ELSE late
        /\ UNCHANGED <<hour, choice, token, device, run, uploads, bounds>>

------------------------------------------------------------------------------
(* A run *)

SyncBegins ==
    /\ on /\ Free /\ ensure_state
    /\ IF progress = {Torn} THEN UNCHANGED run
       ELSE run' = Running("reading", live, {}, 0, CHOOSE s \in progress' : TRUE)
    /\ UNCHANGED <<hour, rows, choice, token, uploads, bounds>>

(* The rotated file is read after the live one, and the clock after both.  *)
SyncPlans ==
    LET read == run.rows \cup rolled
        days == FinishedDays(read, run.st.last)
        todo == Latest(days)
        st   == [run.st EXCEPT !.skipped = @ \cup (days \ todo)]
    IN  /\ run.phase = "reading"
        /\ run' = IF ~token \/ ~retry_allowed(run.st) \/ (todo = {} /\ st = run.st)
                  THEN Resting
                  ELSE Running(IF todo = {} THEN "saving" ELSE "sending", read, todo, hour, st)
        /\ UNCHANGED <<hour, rows, choice, token, device, uploads, bounds>>

NextDayNewest == CHOOSE d \in run.todo : \A e \in run.todo : e <= d

NextDay == CHOOSE d \in run.todo : \A e \in run.todo : d <= e

Object(d) == [device |-> run.st.device, day |-> d, rows |-> {r \in run.rows : r.day = d}]

Stored(d) ==
    {o \in server : o.device # run.st.device \/ o.day # d} \cup {Object(d)}

Attempted(last, fails) ==
    [device |-> run.st.device, last |-> last, at |-> run.at, fails |-> fails,
     skipped |-> run.st.skipped]

Uploaded ==
    /\ run.phase = "sending"
    /\ server' = Stored(NextDay)
    /\ Attempt(0)
    /\ LET left == run.todo \ {NextDay}
       IN  run' = Running(IF left = {} THEN "saving" ELSE "sending", run.rows, left, run.at,
                          Attempted(NextDay, 0))
    /\ UNCHANGED <<hour, rows, choice, token, device, revoked, bounds>>

(* Refused, too large, or stored while the answer was lost: the run ends.  *)
UploadFails ==
    /\ run.phase = "sending"
    /\ server' \in {server, Stored(NextDay)}
    /\ Attempt(tried.now.fails + 1)
    /\ run' = Running("saving", run.rows, {}, run.at,
                      Attempted(run.st.last, run.st.fails + 1))
    /\ UNCHANGED <<hour, rows, choice, token, device, revoked, bounds>>

Save ==
    /\ run.phase = "saving" /\ run' = Resting
    /\ progress' = {run.st} /\ tried' = [tried EXCEPT !.kept = tried.now]
    /\ UNCHANGED <<hour, rows, choice, token, devices, server, revoked, bounds>>

(* The file is truncated and written in place.                             *)
SaveFails ==
    /\ run.phase = "saving" /\ run' = Resting /\ Fault
    /\ progress' \in {progress, {Torn}} /\ Forgotten
    /\ UNCHANGED <<hour, rows, choice, token, devices, server, revoked>>

------------------------------------------------------------------------------
(* Settings *)

ReloadOpen == prefs \in {"on", "bad"}

(* Preferences that cannot be read are off.                                *)
Reload == prefs = "on"

set_enabled(b) ==
    /\ Choice /\ (b => progress # {Torn})
    /\ IF b THEN ensure_state ELSE UNCHANGED device
    /\ on' = b /\ wish' = b
    /\ \/ prefs' = (IF b THEN "on" ELSE "off") /\ unwritten' = FALSE /\ UNCHANGED faults
       \/ faults < MaxFaults /\ faults' = faults + 1 /\ unwritten' = TRUE /\ UNCHANGED prefs
    /\ UNCHANGED <<hour, rows, token, run, uploads>>

set_token ==
    /\ Choice /\ token' = ~token
    /\ UNCHANGED <<hour, rows, choice, device, run, uploads, faults>>

revoke ==
    /\ Choice /\ progress # {Torn} /\ ensure_state
    /\ LET mine == {o \in server : o.device \in {s.device : s \in progress}}
       IN  IF token THEN /\ server' = server \ mine
                         /\ revoked' = revoked \cup {<<o.device, o.day>> : o \in mine}
           ELSE UNCHANGED <<server, revoked>>
    /\ UNCHANGED <<hour, rows, choice, token, run, tried, faults>>

(* A progress file that cannot be read stays until the user removes it.    *)
RemoveProgress ==
    /\ Free /\ progress = {Torn} /\ progress' = {}
    /\ UNCHANGED <<hour, rows, choice, token, devices, run, uploads, bounds>>

DamagePrefs ==
    /\ prefs # "none" /\ Fault /\ prefs' = "bad"
    /\ UNCHANGED <<hour, rows, on, wish, unwritten, token, device, run, uploads>>

(* The app is quit or killed, and started again.                           *)
Restart ==
    /\ on' = Reload /\ run' = Resting
    /\ IF Free THEN UNCHANGED <<progress, tried, bounds>>
       ELSE /\ Fault
            /\ progress' \in {progress} \cup IF run.phase = "saving" THEN {{Torn}} ELSE {}
            /\ Forgotten
    /\ UNCHANGED <<hour, live, rolled, wrote, late, prefs, wish, unwritten, token, devices,
                   server, revoked>>

------------------------------------------------------------------------------
AuditNext ==
    \/ Hour \/ \E day \in {Today - 1, Today} \ {0} : Record(day)
    \/ SyncBegins \/ SyncPlans \/ Uploaded \/ UploadFails \/ Save \/ SaveFails
    \/ \E b \in BOOLEAN : set_enabled(b)
    \/ set_token \/ revoke \/ RemoveProgress \/ DamagePrefs \/ Restart

AuditSpec == AuditInit /\ [][AuditNext]_auditVars
------------------------------------------------------------------------------
(* Correctness *)

Row == [day : 1 .. MaxHour \div DayLen + 1, n : 1 .. MaxRows]

AuditTypeOK ==
    /\ live \cup rolled \cup late \cup run.rows \subseteq Row
    /\ \A s \in progress : s.last \in Nat /\ s.last < Today /\ \A d \in s.skipped : d < Today
    /\ \A o, p \in server : (o.device = p.device /\ o.day = p.day) => o = p

(* No row falls between two days.  Whatever fails, is refused, skipped,     *)
(* rotated or started again: a row still on disk, of a day the progress    *)
(* file calls done, is in the server's object of that day, or was taken    *)
(* back, or its day is on the list of days not sent.  Not so the rows that *)
(* are written after a run has read the file, or after their day is over.  *)
RowsAccounted ==
    \A s \in progress : \A r \in live \cup rolled :
      r.day <= s.last =>
        \/ \E o \in server : o.device = s.device /\ r \in o.rows
        \/ <<s.device, r.day>> \in revoked \/ r.day \in s.skipped \/ r \in late

(* A run that fails is not repeated before its time, by a restarted app    *)
(* either: only a failure that could not be written down is forgotten, and *)
(* then the one before it still counts.                                    *)
Sends == run.phase = "sending" /\ run' \notin {run, Resting}

BacksOff ==
    [][Sends => \/ tried.kept.fails = 0
                \/ run.at >= tried.kept.at + Backoff(tried.kept.fails)]_auditVars

(* Nothing is sent by a user who has turned the upload off, or never on,   *)
(* be it a moment ago or before a restart; only turning it off without     *)
(* being able to write that down does not outlast the app.                 *)
OnlyWhenAsked == [][Sends => wish \/ unwritten]_auditVars

===============================================================================
