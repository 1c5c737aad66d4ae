------------------------------ MODULE Cookies -------------------------------
(***************************************************************************)
(* The cookie store (services/cookies.py), its validation by the six-hour  *)
(* job (services/maintenance.py) and by `cookies test`, and the engine     *)
(* that the jobs of the daemon build from it (daemon/run.py,               *)
(* ensure_engine).                                                         *)
(*                                                                         *)
(* A row holds the session of one imported file.  SQLite hands the id of   *)
(* the highest row out again once that row is deleted (the table has no    *)
(* AUTOINCREMENT), so an id is no identity.                                *)
(***************************************************************************)
EXTENDS Integers, SequencesExt

CONSTANTS
    Files,     \* cookie files an operator imports, each a session of its own
    Jobs,      \* the jobs that call ensure_engine
    Removals   \* how often a cookie is removed (bound)

ASSUME CookiesAssumption ==
    /\ IsFiniteSet(Files) /\ Removals \in Nat
    /\ "validate" \in Jobs

NoId == 0
NoFile == "none"
Nothing == [id |-> NoId, file |-> NoFile]
Ids == 1..Cardinality(Files)
Validators == {"validate", "test"}   \* the job and the command
States == {"valid", "invalid", "inconclusive"}

VARIABLES
    stored,    \* the rows: id -> file and validation_state
    recent,    \* the validated ones, the last validated first (last_validated_at)
    imported,  \* files that were imported
    expired,   \* files whose session TikTok has ended
    probes,    \* the profiles the operator named as probes all exist
    engine,    \* components.engine and engine_cookie_id
    held,      \* what each job's ensure_engine has read, while it is in it
    val,       \* the runs of validate_cookie
    removals,
    refused,   \* history: <<id, file>> if a probe with that session, asked
               \* on account of that row, got a definitive answer
    issued,    \* history: ids that were given out
    reissued   \* history: ids that were given to a second row

cookieVars == <<stored, recent, imported, expired, probes, engine, held, val, removals,
                refused, issued, reissued>>

Idle == [pc |-> "idle", todo |-> <<>>, file |-> NoFile, verdict |-> "none"]
NotReading == [id |-> NoId, file |-> "not reading"]

CookiesInit ==
    /\ \/ stored = <<>> /\ imported = {}
       \/ \E f \in Files :
              stored = <<[file |-> f, state |-> "inconclusive"]>> /\ imported = {f}
    /\ recent = <<>> /\ expired = {} /\ probes \in BOOLEAN
    /\ engine = IF stored = <<>> THEN Nothing ELSE [id |-> 1, file |-> stored[1].file]
    /\ held = [j \in Jobs |-> NotReading]
    /\ val = [v \in Validators |-> Idle]
    /\ removals = 0 /\ refused = {} /\ issued = DOMAIN stored /\ reissued = {}

(***************************************************************************)
(* The store.                                                              *)
(***************************************************************************)
\* get_working_cookie: valid ones first, then the last validated, then by id.
Usable == {i \in DOMAIN stored : stored[i].state # "invalid"}

Position(i) ==
    IF i \in ToSet(recent) THEN CHOOSE k \in DOMAIN recent : recent[k] = i
    ELSE Len(recent) + 1

\* Without row i, which goes or is validated again.
Forgotten(i) == IF i \in ToSet(recent) THEN RemoveAt(recent, Position(i)) ELSE recent

Before(i, j) ==
    IF stored[i].state # stored[j].state THEN stored[i].state = "valid"
    ELSE \/ Position(i) < Position(j)
         \/ Position(i) = Position(j) /\ i < j

Working ==
    IF Usable = {} THEN Nothing
    ELSE LET best == CHOOSE i \in Usable : \A j \in Usable \ {i} : Before(i, j)
         IN  [id |-> best, file |-> stored[best].file]

KeepStore == UNCHANGED <<stored, recent, imported, removals, issued, reissued>>
KeepTikTok == UNCHANGED <<expired, probes>>
KeepUses == UNCHANGED <<engine, held, val, refused>>

\* ORDER BY id: the k-th has k - 1 before it.
InOrder(ids) ==
    [k \in 1..Cardinality(ids) |->
        CHOOSE i \in ids : Cardinality({j \in ids : j < i}) = k - 1]

\* A table with one more row.
WithRow(table, id, row) == [k \in DOMAIN table \cup {id} |-> IF k = id THEN row ELSE table[k]]

\* The id SQLite gives to a new row.
NextId(table) == IF DOMAIN table = {} THEN 1 ELSE 1 + Max(DOMAIN table)

AddCookie(f) ==
    /\ f \notin imported /\ imported' = imported \cup {f}
    /\ LET id == NextId(stored)
       IN  /\ stored' = WithRow(stored, id, [file |-> f, state |-> "inconclusive"])
           /\ reissued' = IF id \in issued THEN reissued \cup {id} ELSE reissued
           /\ issued' = issued \cup {id}
    /\ UNCHANGED <<recent, removals>> /\ KeepTikTok /\ KeepUses

RemoveCookie(i) ==
    /\ i \in DOMAIN stored /\ removals < Removals /\ removals' = removals + 1
    /\ stored' = [k \in DOMAIN stored \ {i} |-> stored[k]]
    /\ recent' = Forgotten(i)
    /\ UNCHANGED <<imported, issued, reissued>> /\ KeepTikTok /\ KeepUses

\* TikTok ends a session.
Expire(f) ==
    /\ f \in imported \ expired /\ expired' = expired \cup {f}
    /\ UNCHANGED probes /\ KeepStore /\ KeepUses

\* One of the profiles named as probes is deleted.
ProbesGo ==
    /\ probes /\ probes' = FALSE
    /\ UNCHANGED expired /\ KeepStore /\ KeepUses

(***************************************************************************)
(* ensure_engine, inside job j: a read, and then what it makes of it.      *)
(***************************************************************************)
EnsureReads(j) ==
    /\ held[j] = NotReading /\ held' = [held EXCEPT ![j] = Working]
    /\ KeepStore /\ KeepTikTok /\ UNCHANGED <<engine, val, refused>>

\* Mutant: only a missing engine is built.
ApplyLazily(j) ==
    /\ held[j] # NotReading /\ held' = [held EXCEPT ![j] = NotReading]
    /\ engine' = IF engine # Nothing THEN engine ELSE held[j]

EngineApply(j) ==
    /\ held[j] # NotReading /\ held' = [held EXCEPT ![j] = NotReading]
    /\ engine' = IF held[j].id = engine.id THEN engine ELSE held[j]

(***************************************************************************)
(* validate_cookie, inside validator v.                                    *)
(***************************************************************************)
KeepButVal == KeepStore /\ KeepTikTok /\ UNCHANGED <<engine, held, refused>>
Goes(v, pc) == val' = [val EXCEPT ![v].pc = pc]
Aborts(v) == val' = [val EXCEPT ![v] = Idle]
Reading(todo) == [pc |-> "read", todo |-> todo, file |-> NoFile, verdict |-> "none"]
Judges(v, verdict) ==
    val' = [val EXCEPT ![v] = [pc |-> "write", todo |-> @.todo, file |-> @.file,
                               verdict |-> verdict]]
Done(v) ==
    LET rest == Tail(val[v].todo)
    IN  val' = [val EXCEPT ![v] = IF rest = <<>> THEN Idle ELSE Reading(rest)]

\* The job, once it has an engine, takes the ids of all usable rows.
BatchReads ==
    /\ val["validate"].pc = "list"
    /\ val' = [val EXCEPT !["validate"] =
                 IF Usable = {} THEN Idle ELSE Reading(InOrder(Usable))]
    /\ KeepButVal

TestCookie(i) ==
    /\ val["test"].pc = "idle" /\ i \in DOMAIN stored
    /\ val' = [val EXCEPT !["test"] = Reading(<<i>>)]
    /\ KeepButVal

\* A row that is gone by now ends the validation, and with it the batch.
ReadBlob(v) ==
    /\ val[v].pc = "read"
    /\ LET i == Head(val[v].todo)
       IN  IF i \in DOMAIN stored
           THEN val' = [val EXCEPT ![v] = [pc |-> "probe", todo |-> @.todo,
                                           file |-> stored[i].file, verdict |-> "none"]]
           ELSE Aborts(v)
    /\ KeepButVal

\* Mutant: a probe that fails for any reason counts against the cookie.
ProbeJudgesAll(v) ==
    /\ val[v].pc = "probe"
    /\ \E verdict \in {"valid", "invalid"} : Judges(v, verdict)
    /\ KeepButVal

\* The candidates in order: a video is a proof that the cookie works; a failure
\* that is classified as definitive counts as a proof that it does not, be it
\* that the session has ended or that the probe is gone; if every one of
\* them is empty or fails otherwise, there is no verdict.  A public probe may
\* work without a session.
Probe(v) ==
    /\ val[v].pc = "probe"
    /\ \/ Judges(v, "valid") /\ UNCHANGED refused
       \/ /\ val[v].file \in expired \/ ~probes
          /\ refused' = refused \cup {<<Head(val[v].todo), val[v].file>>}
          /\ Judges(v, "invalid")
       \/ Done(v) /\ UNCHANGED refused
    /\ KeepStore /\ KeepTikTok /\ UNCHANGED <<engine, held>>

WriteVerdict(v) ==
    /\ val[v].pc = "write"
    /\ LET i == Head(val[v].todo)
       IN  IF i \in DOMAIN stored
           THEN /\ stored' = [stored EXCEPT ![i].state = val[v].verdict]
                /\ recent' = <<i>> \o Forgotten(i)
                /\ Done(v)
           ELSE Aborts(v) /\ UNCHANGED <<stored, recent>>
    /\ KeepTikTok
    /\ UNCHANGED <<imported, engine, held, removals, refused, issued, reissued>>
=============================================================================
