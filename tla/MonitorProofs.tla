---------------------------- MODULE MonitorProofs ----------------------------
(***************************************************************************)
(* Theorems about Monitor, for any accounts, videos, cookies and jobs.     *)
(***************************************************************************)
EXTENDS Monitor, TLAPS, FiniteSetTheorems, WellFoundedInduction, SequenceTheorems

\* Groups of variables are read as what they stand for.
USE DEF accountVars, videoVars, refreshVars, KeepTikTok, KeepButChecks, KeepButVideos

-----------------------------------------------------------------------------
(* The network: the monitor's counter is the number of failures in a row.  *)

BlipInv ==
    /\ streak \in 0..Threshold
    /\ failures = streak
    /\ BlipHarmless

\* The steps that are not a probe.
NoProbe == UNCHANGED <<failures, available, streak>>

LEMMA OnlyProbesCount ==
    ASSUME [Next]_vars, ~(NetworkJob /\ OnlyGuards)
    PROVE  NoProbe
<1> USE DEF NoProbe, guardVars, networkVars, diskVars
<1>1. CASE HeartbeatJob
    BY <1>1 DEF HeartbeatJob, EnsureBegins, HeartbeatLaunches, KeepAll, KeepButEngine
<1>2. CASE CollectJob
    BY <1>2 DEF CollectJob, EnsureBegins, CollectEnsured, KeepAll, KeepButEngine
<1>3. CASE ValidateJob
    BY <1>3 DEF ValidateJob, EnsureBegins, ValidateEnsured, KeepAll, KeepButEngine, OnlyCookies
<1>4. CASE RefreshJob
    BY <1>4 DEF RefreshJob, EnsureBegins, RefreshBegins, PageLoads, PageFails, ProfileWritten,
                KeepAll, KeepButEngine, KeepButRefresh
<1>5. CASE CycleSteps
  <2>1. CASE CycleStarts \/ CookieGate \/ FlagGate \/ TurnBegins \/ ListingReturns
             \/ TurnCookieGate \/ TurnFlagGate \/ PendingsDone \/ \E v \in Videos : LookUp(v)
      BY <2>1 DEF CycleStarts, CookieGate, FlagGate, TurnBegins, ListingReturns, Listing,
                  TurnCookieGate, TurnFlagGate, PendingsDone, LookUp, KeepCycleOnly
  <2>6. CASE SelectAccounts \/ SelectPendings
      BY <2>6 DEF SelectAccounts, SelectPendings, KeepCycleOnly
  <2>2. CASE ListingEmpty \/ ListingRefused \/ ListingFails
      BY <2>2 DEF ListingEmpty, ListingRefused, ListingFails, Listing
  <2>3. CASE StopForCookies \/ TurnStopsForCookies
      BY <2>3 DEF StopForCookies, TurnStopsForCookies, KeepButFlag
  <2>4. CASE MarkReview \/ TouchLastCheck
      BY <2>4 DEF MarkReview, TouchLastCheck
  <2>5. CASE DiskFullPersisted \/ \E v \in Videos : Insert(v) \/ Download(v)
      BY <2>5 DEF DiskFullPersisted, Insert, Download, KeepButRows
  <2> QED BY <1>5, <2>1, <2>2, <2>3, <2>4, <2>5, <2>6 DEF CycleSteps
<1>6. CASE DiskJob /\ OnlyGuards
    BY <1>6 DEF DiskJob, CheckReadsUsage, CheckReadsFlag, CheckWrites
<1>7. CASE \E a \in Accounts : CheckAges(a) \/ ProfileAges(a)
    BY <1>7 DEF CheckAges, ProfileAges, KeepButRefresh
<1>8. CASE CookieCommands /\ OnlyCookies
    BY <1>8 DEF OnlyCookies, KeepAll
<1>9. CASE AccountCommands \/ ResumeCommand \/ \E on \in BOOLEAN : SetMonitor(on)
    BY <1>9 DEF AccountCommands, AddAccount, SetPaused, RemoveCounts, RemoveDeletes, KeepButAccounts,
                ResumeCommand, ManualResume, SetMonitor
<1>10. CASE World
    BY <1>10 DEF World, OnlyCookies, KeepAll, NetworkChanges, DiskChanges, Publish, OtherInserts,
                 DiskFull
<1>11. CASE UNCHANGED vars
    BY <1>11 DEF vars
<1> QED BY <1>1, <1>2, <1>3, <1>4, <1>5, <1>6, <1>7, <1>8, <1>9, <1>10, <1>11 DEF Next

LEMMA BlipInductive == BlipInv /\ [Next]_vars => BlipInv'
<1> SUFFICES ASSUME BlipInv, [Next]_vars PROVE BlipInv'
    OBVIOUS
<1> USE GuardsAssumption DEF BlipInv, BlipHarmless
<1>1. CASE ProbeAnswered
    BY <1>1 DEF ProbeAnswered
<1>2. CASE ProbeFails
    BY <1>2 DEF ProbeFails, Counted
<1>3. CASE ~(NetworkJob /\ OnlyGuards)
    BY <1>3, OnlyProbesCount DEF NoProbe
<1> QED BY <1>1, <1>2, <1>3 DEF NetworkJob

\* A blip stops nothing: downloads wait for the network only while as many
\* probes in a row as configured have failed.
THEOREM BlipsAreHarmless == Spec => []BlipHarmless
<1>1. Init => BlipInv
    BY GuardsAssumption DEF Init, GuardsInit, BlipInv, BlipHarmless
<1>2. BlipInv => BlipHarmless
    BY DEF BlipInv
<1>3. Init /\ [][Next]_vars => []BlipHarmless
    BY <1>1, <1>2, BlipInductive, PTL
<1> QED BY <1>3, PTL DEF Spec

-----------------------------------------------------------------------------
(* The ids of accounts and of cookies: one above the highest there is.     *)

LEMMA LeastElement ==
    ASSUME NEW T \in SUBSET Nat, T # {}
    PROVE  \E x \in T : \A y \in T : x <= y
<1>1. \E R : IsWellFoundedOn(R, Nat) /\ \A x, y \in Nat : <<x, y>> \in R <=> x < y
  <2>1. PICK R \in {OpToRel(<, Nat)} : IsWellFoundedOn(R, Nat)
      BY NatLessThanWellFounded, Zenon
  <2>2. \A x, y \in Nat : <<x, y>> \in R <=> x < y
      BY <2>1, Zenon DEF OpToRel
  <2> QED BY <2>1, <2>2
<1>2. PICK R : IsWellFoundedOn(R, Nat) /\ \A x, y \in Nat : <<x, y>> \in R <=> x < y
    BY <1>1
<1>3. T \subseteq Nat /\ T # {} /\ IsWellFoundedOn(R, Nat)
    BY <1>2
<1>4. PICK x \in T : \A y \in T : ~(<<y, x>> \in R)
    BY <1>3, WFMin
<1>5. \A y \in T : y \in Nat /\ x \in Nat /\ ~(y < x)
    BY <1>2, <1>4
<1> QED BY <1>4, <1>5

LEMMA GreatestElement ==
    ASSUME NEW n \in Nat, NEW T \in SUBSET (1..n), T # {}
    PROVE  \E x \in T : \A y \in T : x >= y
<1>1. PICK U \in SUBSET Nat : \A m \in Nat : m \in U <=> \E x \in T : m = n - x
  <2>1. {m \in Nat : \E x \in T : m = n - x} \in SUBSET Nat
      OBVIOUS
  <2> QED BY <2>1
<1>2. PICK x \in T : TRUE
    OBVIOUS
<1>3. n - x \in U
    BY <1>1
<1>4. PICK m \in U : \A k \in U : m <= k
    BY <1>3, LeastElement
<1>5. PICK y \in T : m = n - y
    BY <1>1, <1>4
<1>6. \A z \in T : n - z \in U
    BY <1>1
<1>7. \A z \in T : y >= z
    BY <1>4, <1>5, <1>6
<1> QED BY <1>7

LEMMA NextIdNext ==
    ASSUME NEW table, NEW n \in Nat, DOMAIN table \subseteq 1..n
    PROVE  NextId(table) \in 1..(n + 1) /\ NextId(table) \notin DOMAIN table
<1>1. CASE DOMAIN table = {}
    BY <1>1 DEF NextId
<1>2. CASE DOMAIN table # {}
  <2>1. \E x \in DOMAIN table : \A y \in DOMAIN table : x >= y
      BY <1>2, GreatestElement
  <2>2. PICK m : m = Max(DOMAIN table)
      OBVIOUS
  <2>3. m \in DOMAIN table /\ \A y \in DOMAIN table : m >= y
      BY <2>1, <2>2 DEF Max
  <2>4. 1 + m \notin DOMAIN table /\ m \in 1..n
      BY <2>3
  <2> QED BY <1>2, <2>2, <2>4 DEF NextId
<1> QED BY <1>1, <1>2

-----------------------------------------------------------------------------
(* The listing: what a turn has still to look at, and what it has seen.    *)

Row == [name : Accounts, mode : {"monitor", "history"}, paused : BOOLEAN,
        review : BOOLEAN, check : {"never", "fresh", "old"}]

\* Usernames are unique, and every account is on the list of owners.
AccountsOK ==
    /\ \E n \in Nat : DOMAIN accounts \subseteq 1..n
    /\ owners \subseteq (Nat \ {NoId}) \X Accounts
    /\ \A i \in DOMAIN accounts :
           /\ accounts[i] \in Row /\ <<i, accounts[i].name>> \in owners
           /\ \A k \in DOMAIN accounts : accounts[k].name = accounts[i].name => k = i

CycleOK ==
    cycle = [pc |-> cycle.pc, engine |-> cycle.engine, todo |-> cycle.todo,
             account |-> cycle.account, entries |-> cycle.entries, listed |-> cycle.listed,
             pending |-> cycle.pending]

ListingPcs == {"look", "insert"}
AccountPcs == ListingPcs \cup {"listing", "touch"}

\* The id is one the turn's account has had.  The entries left are of that
\* account, and what the listing showed is on record but for them.
EntriesOK ==
    /\ cycle.pc \in AccountPcs => <<cycle.account, Turn>> \in owners
    /\ cycle.pc \in ListingPcs =>
           /\ \A v \in cycle.entries : Author[v] = Turn
           /\ cycle.listed \subseteq DOMAIN rows \cup cycle.entries
    /\ cycle.pc = "touch" => cycle.listed \subseteq DOMAIN rows

ListInv == AccountsOK /\ CycleOK /\ EntriesOK /\ NoOrphanVideos

LEMMA ListInit == Init => ListInv
<1> SUFFICES ASSUME Init PROVE ListInv
    OBVIOUS
<1>1. PICK n \in 0..Cardinality(Accounts) : \E names \in [1..n -> Accounts] :
         /\ IsInjective(names)
         /\ accounts = [i \in 1..n |-> NewAccount(names[i], "monitor")]
         /\ owners = {<<i, names[i]>> : i \in 1..n}
    BY DEF Init
<1>2. PICK names \in [1..n -> Accounts] :
         /\ IsInjective(names)
         /\ accounts = [i \in 1..n |-> NewAccount(names[i], "monitor")]
         /\ owners = {<<i, names[i]>> : i \in 1..n}
    BY <1>1
<1>3. n \in Nat
    BY <1>1, FS_CardinalityType, MonitorAssumption
<1>4. DOMAIN accounts = 1..n /\ \A i \in 1..n : accounts[i] = NewAccount(names[i], "monitor")
    BY <1>2
<1>5. \A i \in 1..n : /\ accounts[i] \in Row /\ accounts[i].name = names[i]
                      /\ <<i, names[i]>> \in owners
    BY <1>2, <1>4 DEF NewAccount, Row
<1>6. owners \subseteq (Nat \ {NoId}) \X Accounts
    BY <1>2, <1>3 DEF NoId
<1>7. \A i, k \in 1..n : names[k] = names[i] => k = i
    BY <1>2 DEF IsInjective
<1>8. AccountsOK
  <2>1. \E k \in Nat : DOMAIN accounts \subseteq 1..k
    BY <1>3, <1>4
  <2>2. ASSUME NEW i \in DOMAIN accounts, NEW k \in DOMAIN accounts,
               accounts[k].name = accounts[i].name
        PROVE  k = i
    <3>1. i \in 1..n /\ k \in 1..n
      BY <1>4
    <3>2. names[k] = names[i]
      BY <1>5, <2>2, <3>1
    <3> QED
      BY <1>7, <3>1, <3>2
  <2>3. \A i \in DOMAIN accounts : accounts[i] \in Row /\ <<i, accounts[i].name>> \in owners
    BY <1>4, <1>5
  <2> QED
    BY <1>6, <2>1, <2>2, <2>3 DEF AccountsOK
<1>9. CycleOK /\ cycle.pc = "off" /\ rows = <<>>
    BY DEF Init, CycleOK, NoCycle
<1> QED BY <1>8, <1>9 DEF ListInv, EntriesOK, NoOrphanVideos, ListingPcs, AccountPcs

\* An account that is there is found by its name.
LEMMA FoundByName ==
    ASSUME AccountsOK, NEW a, ~Gone(a)
    PROVE  /\ IdOf(a) \in DOMAIN accounts /\ accounts[IdOf(a)].name = a
           /\ <<IdOf(a), a>> \in owners
<1>1. \E i \in DOMAIN accounts : accounts[i].name = a
    BY DEF Gone, Named
<1>2. IdOf(a) \in DOMAIN accounts /\ accounts[IdOf(a)].name = a
    BY <1>1 DEF IdOf
<1> QED BY <1>2 DEF AccountsOK

\* An id that an account of that name has had is its own, or shared.
LEMMA OwnOrShared ==
    ASSUME AccountsOK, NEW i \in DOMAIN accounts, NEW a, <<i, a>> \in owners
    PROVE  accounts[i].name = a \/ Shared(i)
<1>1. PICK p, q : p = <<i, a>> /\ q = <<i, accounts[i].name>>
    OBVIOUS
<1>2. /\ p \in owners /\ q \in owners /\ p[1] = i /\ q[1] = i
      /\ p[2] = a /\ q[2] = accounts[i].name
    BY <1>1 DEF AccountsOK
<1> QED BY <1>2 DEF Shared

\* The steps that take no account, store no video and do not list.
LEMMA ListAside ==
    ASSUME ListInv, AccountsOK', CycleOK',
           owners \subseteq owners',
           \A i \in DOMAIN accounts : i \in DOMAIN accounts' /\ accounts'[i].name = accounts[i].name,
           DOMAIN rows' = DOMAIN rows,
           \A v \in DOMAIN rows : rows'[v].account = rows[v].account,
           cycle' = cycle \/ cycle'.pc \notin AccountPcs
    PROVE  ListInv'
<1>1. \A i : Shared(i) => Shared(i)'
    BY DEF Shared
<1>2. EntriesOK'
    BY DEF ListInv, EntriesOK, ListingPcs, AccountPcs, Turn
<1>3. NoOrphanVideos'
    BY <1>1 DEF ListInv, NoOrphanVideos
<1> QED BY <1>2, <1>3 DEF ListInv

LEMMA AccountsStay ==
    ASSUME AccountsOK, UNCHANGED <<accounts, owners>>
    PROVE  AccountsOK'
BY DEF AccountsOK

\* A column of one account is written.
LEMMA AccountWritten ==
    ASSUME AccountsOK, UNCHANGED owners, DOMAIN accounts' = DOMAIN accounts,
           \A i \in DOMAIN accounts : accounts'[i] \in Row /\ accounts'[i].name = accounts[i].name
    PROVE  AccountsOK'
BY DEF AccountsOK

LEMMA Moves ==
    ASSUME CycleOK, NEW pc, To(pc)
    PROVE  CycleOK' /\ cycle' = [cycle EXCEPT !.pc = pc] /\ cycle'.pc = pc
BY DEF CycleOK, To

LEMMA TurnIsOver ==
    ASSUME NEW todo, NextTurn(todo)
    PROVE  CycleOK' /\ cycle'.pc \in {"off", "turn"}
BY DEF CycleOK, NextTurn, NoCycle

LEMMA GoesOff ==
    ASSUME cycle' = NoCycle
    PROVE  CycleOK' /\ cycle'.pc = "off"
BY DEF CycleOK, NoCycle

LEMMA GoesOn ==
    ASSUME Discovered
    PROVE  CycleOK' /\ cycle'.pc = "cookies left" /\ cycle'.entries = {} /\ cycle'.pending = {}
BY DEF CycleOK, Discovered, NoCycle

\* Gates and choices: accounts and rows stay, and the cycle is not brought
\* to a listing.
LEMMA GateKeeps ==
    ASSUME ListInv,
           CycleStarts \/ CookieGate \/ StopForCookies \/ FlagGate \/ SelectAccounts
             \/ TurnCookieGate \/ TurnStopsForCookies \/ TurnFlagGate \/ SelectPendings
             \/ PendingsDone \/ ListingRefused \/ ListingFails
    PROVE  ListInv'
<1>1. UNCHANGED <<accounts, owners, rows>>
    BY DEF CycleStarts, CookieGate, StopForCookies, FlagGate, SelectAccounts,
           TurnCookieGate, TurnStopsForCookies, TurnFlagGate, SelectPendings, PendingsDone,
           ListingRefused, ListingFails, Listing, KeepCycleOnly, KeepButCycle, KeepButFlag
<1>2. CycleOK' /\ cycle'.pc \notin AccountPcs
  <2> USE DEF ListingPcs, AccountPcs
  <2>1. CASE CycleStarts
      BY <2>1 DEF CycleStarts, ListInv, CycleOK
  <2>2. CASE CookieGate
    <3>1. PICK pc \in {"stop", "flag"} : To(pc)
        BY <2>2 DEF CookieGate
    <3> QED BY <3>1, Moves DEF ListInv
  <2>3. CASE StopForCookies
      BY <2>3, GoesOff DEF StopForCookies
  <2>4. CASE FlagGate
    <3>1. cycle' = NoCycle \/ To("select")
        BY <2>4 DEF FlagGate
    <3> QED BY <3>1, Moves, GoesOff DEF ListInv
  <2>5. CASE SelectAccounts
    <3>1. \E todo : NextTurn(todo)
        BY <2>5 DEF SelectAccounts
    <3> QED BY <3>1, TurnIsOver
  <2>6. CASE ListingRefused
    <3>1. To("review")
        BY <2>6 DEF ListingRefused
    <3> QED BY <3>1, Moves DEF ListInv
  <2>7. CASE TurnCookieGate
    <3>1. To("stop turn") \/ To("turn flag")
        BY <2>7 DEF TurnCookieGate
    <3> QED BY <3>1, Moves DEF ListInv
  <2>8. CASE TurnStopsForCookies
      BY <2>8, TurnIsOver DEF TurnStopsForCookies, TurnEnds
  <2>9. CASE TurnFlagGate
    <3>1. NextTurn(Tail(cycle.todo)) \/ To("pendings")
        BY <2>9 DEF TurnFlagGate, TurnEnds
    <3> QED BY <3>1, Moves, TurnIsOver DEF ListInv
  <2>10. CASE SelectPendings
    <3>1. \/ NextTurn(Tail(cycle.todo))
          \/ \E s : cycle' = [cycle EXCEPT !.pc = "download", !.pending = s]
        BY <2>10 DEF SelectPendings, TurnEnds
    <3> QED BY <3>1, TurnIsOver DEF ListInv, CycleOK
  <2>11. CASE PendingsDone
      BY <2>11, TurnIsOver DEF PendingsDone, TurnEnds
  <2>12. CASE ListingFails
      BY <2>12, GoesOn DEF ListingFails
  <2> QED BY <2>1, <2>2, <2>3, <2>4, <2>5, <2>6, <2>7, <2>8, <2>9, <2>10, <2>11, <2>12
<1> QED BY <1>1, <1>2, AccountsStay, ListAside DEF ListInv

\* A turn begins with the id of its account; a listing that returns begins
\* with nothing seen and everything left.
LEMMA ListingKeeps ==
    ASSUME ListInv, TurnBegins \/ ListingReturns \/ ListingEmpty
    PROVE  ListInv'
<1>1. UNCHANGED <<accounts, owners, rows>> /\ AccountsOK'
  <2>1. UNCHANGED <<accounts, owners, rows>>
      BY DEF TurnBegins, ListingReturns, ListingEmpty, Listing, KeepCycleOnly, KeepButCycle
  <2> QED BY <2>1, AccountsStay DEF ListInv
<1>2. \A v \in Feed(Turn) : Author[v] = Turn
    BY DEF Feed
<1>3. NoOrphanVideos'
    BY <1>1 DEF ListInv, NoOrphanVideos, Shared
<1>4. CASE ListingReturns
  <2>1. cycle' = [cycle EXCEPT !.pc = IF Feed(Turn) = {} THEN "touch" ELSE "look",
                               !.entries = Feed(Turn), !.listed = Feed(Turn)]
      BY <1>4 DEF ListingReturns
  <2>2. /\ CycleOK' /\ cycle'.account = cycle.account
        /\ cycle'.pc = IF Feed(Turn) = {} THEN "touch" ELSE "look"
        /\ cycle'.entries = Feed(Turn) /\ cycle'.listed = Feed(Turn) /\ cycle'.todo = cycle.todo
      BY <2>1 DEF ListInv, CycleOK
  <2>3. <<cycle.account, Turn>> \in owners
      BY <1>4 DEF ListInv, EntriesOK, AccountPcs, ListingReturns, Listing, At
  <2>4. EntriesOK'
      BY <1>1, <1>2, <2>2, <2>3 DEF EntriesOK, ListingPcs, AccountPcs, Turn
  <2> QED BY <1>1, <1>3, <2>2, <2>4 DEF ListInv
<1>5. CASE ListingEmpty
  <2>1. cycle' = [cycle EXCEPT !.pc = "touch", !.listed = {}] /\ cycle.pc = "listing"
      BY <1>5 DEF ListingEmpty, Listing, At
  <2>2. /\ CycleOK' /\ cycle'.pc = "touch" /\ cycle'.listed = {}
        /\ cycle'.account = cycle.account /\ cycle'.todo = cycle.todo
      BY <2>1 DEF ListInv, CycleOK
  <2>3. EntriesOK'
      BY <1>1, <2>1, <2>2 DEF ListInv, EntriesOK, ListingPcs, AccountPcs, Turn
  <2> QED BY <1>1, <1>3, <2>2, <2>3 DEF ListInv
<1>6. CASE TurnBegins
  <2>1. CASE Gone(Turn)
      BY <1>1, <1>6, <2>1, TurnIsOver, ListAside DEF TurnBegins, TurnEnds, ListingPcs, AccountPcs
  <2>2. CASE Discovered
      BY <1>1, <2>2, GoesOn, ListAside DEF ListingPcs, AccountPcs
  <2>3. CASE /\ ~Gone(Turn)
             /\ cycle' = [cycle EXCEPT !.pc = "listing", !.account = IdOf(Turn)]
    <3>1. <<IdOf(Turn), Turn>> \in owners
        BY <2>3, FoundByName DEF ListInv
    <3>2. /\ CycleOK' /\ cycle'.pc = "listing" /\ cycle'.account = IdOf(Turn)
          /\ cycle'.todo = cycle.todo
        BY <2>3 DEF ListInv, CycleOK
    <3>3. EntriesOK'
        BY <1>1, <3>1, <3>2 DEF EntriesOK, ListingPcs, AccountPcs, Turn
    <3> QED BY <1>1, <1>3, <3>2, <3>3 DEF ListInv
  <2> QED BY <1>6, <2>1, <2>2, <2>3 DEF TurnBegins
<1> QED BY <1>4, <1>5, <1>6

LEMMA EntryIsDone ==
    ASSUME ListInv, NEW v, v \in cycle.entries, cycle.pc \in ListingPcs, NextEntry(v)
    PROVE  /\ CycleOK'
           /\ cycle'.pc \in {"look", "touch"}
           /\ cycle'.entries = cycle.entries \ {v}
           /\ cycle'.pc = "touch" => cycle'.entries = {}
           /\ cycle'.listed = cycle.listed /\ cycle'.todo = cycle.todo
           /\ cycle'.account = cycle.account
BY DEF NextEntry, ListInv, CycleOK

\* An entry is done with: it has a row by now.
LEMMA EntryStored ==
    ASSUME ListInv, NEW v, v \in cycle.entries, cycle.pc \in ListingPcs, NextEntry(v),
           UNCHANGED owners, DOMAIN rows' = DOMAIN rows \cup {v}
    PROVE  CycleOK' /\ EntriesOK'
<1>1. /\ <<cycle.account, Turn>> \in owners
      /\ \A w \in cycle.entries : Author[w] = Turn
      /\ cycle.listed \subseteq DOMAIN rows \cup cycle.entries
    BY DEF ListInv, EntriesOK, AccountPcs
<1> QED BY <1>1, EntryIsDone DEF EntriesOK, ListingPcs, AccountPcs, Turn

LEMMA LookUpKeeps ==
    ASSUME ListInv, NEW v, LookUp(v)
    PROVE  ListInv'
<1>1. UNCHANGED <<accounts, owners, rows>> /\ v \in cycle.entries /\ cycle.pc = "look"
    BY DEF LookUp, Newest, At, KeepCycleOnly, KeepButCycle
<1>2. AccountsOK' /\ NoOrphanVideos'
    BY <1>1, AccountsStay DEF ListInv, NoOrphanVideos, Shared
<1>3. CASE v \in DOMAIN rows
  <2>1. NextEntry(v) /\ DOMAIN rows' = DOMAIN rows \cup {v} /\ cycle.pc \in ListingPcs
      BY <1>1, <1>3 DEF LookUp, ListingPcs
  <2> QED BY <1>1, <1>2, <2>1, EntryStored DEF ListInv
<1>4. CASE v \notin DOMAIN rows
  <2>1. cycle' = [cycle EXCEPT !.pc = "insert"]
      BY <1>4 DEF LookUp, To
  <2>2. /\ CycleOK' /\ cycle'.pc = "insert" /\ cycle'.entries = cycle.entries
        /\ cycle'.listed = cycle.listed /\ cycle'.todo = cycle.todo
        /\ cycle'.account = cycle.account
      BY <2>1 DEF ListInv, CycleOK
  <2>3. EntriesOK'
      BY <1>1, <2>2 DEF ListInv, EntriesOK, ListingPcs, AccountPcs, Turn
  <2> QED BY <1>2, <2>2, <2>3 DEF ListInv
<1> QED BY <1>3, <1>4

\* A row for a video under an id that its author's account has had.
LEMMA RowIsOwn ==
    ASSUME AccountsOK, NoOrphanVideos, UNCHANGED <<accounts, owners>>, NEW v,
           NEW i \in DOMAIN accounts, <<i, Author[v]>> \in owners,
           v \notin DOMAIN rows, rows' = WithRow(rows, v, Pending(i))
    PROVE  NoOrphanVideos'
<1>1. /\ DOMAIN rows' = DOMAIN rows \cup {v} /\ rows'[v].account = i
      /\ \A w \in DOMAIN rows : rows'[w] = rows[w]
    BY DEF WithRow, Pending
<1>2. accounts[i].name = Author[v] \/ Shared(i)
    BY OwnOrShared
<1>3. \A k : Shared(k)' <=> Shared(k)
    BY DEF Shared
<1> QED BY <1>1, <1>2, <1>3 DEF NoOrphanVideos

LEMMA InsertKeeps ==
    ASSUME ListInv, NEW v, Insert(v)
    PROVE  ListInv'
<1>1. /\ UNCHANGED <<accounts, owners>> /\ v \in cycle.entries /\ cycle.pc = "insert"
      /\ AccountsOK'
  <2>1. UNCHANGED <<accounts, owners>> /\ v \in cycle.entries /\ cycle.pc = "insert"
      BY DEF Insert, Newest, At, KeepButRows
  <2> QED BY <2>1, AccountsStay DEF ListInv
<1>2. CASE v \in DOMAIN rows \/ AccountLeft
  <2>1. NextTurn(Tail(cycle.todo)) /\ rows' = rows
      BY <1>2 DEF Insert, TurnEnds
  <2> QED BY <1>1, <2>1, TurnIsOver, ListAside DEF ListingPcs, AccountPcs
<1>3. CASE ~(v \in DOMAIN rows \/ AccountLeft)
  <2>1. NextEntry(v) /\ rows' = WithRow(rows, v, Pending(cycle.account))
      BY <1>3 DEF Insert
  <2>2. Author[v] = Turn /\ <<cycle.account, Turn>> \in owners /\ cycle.account \in DOMAIN accounts
      BY <1>1, <1>3 DEF ListInv, EntriesOK, ListingPcs, AccountPcs, AccountLeft
  <2>3. NoOrphanVideos'
      BY <1>1, <1>3, <2>1, <2>2, RowIsOwn DEF ListInv
  <2>4. DOMAIN rows' = DOMAIN rows \cup {v} /\ cycle.pc \in ListingPcs
      BY <1>1, <2>1 DEF WithRow, ListingPcs
  <2>5. CycleOK' /\ EntriesOK'
      BY <1>1, <2>1, <2>4, EntryStored
  <2> QED BY <1>1, <2>3, <2>5 DEF ListInv
<1> QED BY <1>2, <1>3

\* The steps of a turn that write an account or a video's outcome.
LEMMA WriteKeeps ==
    ASSUME ListInv,
           MarkReview \/ TouchLastCheck \/ DiskFullPersisted
             \/ \E v \in Videos : Download(v) \/ DiskFull(v)
    PROVE  ListInv'
<1> USE DEF ListingPcs, AccountPcs
<1>1. CASE MarkReview \/ TouchLastCheck
  <2>1. UNCHANGED <<owners, rows>>
      BY <1>1 DEF MarkReview, TouchLastCheck, KeepButChecks
  <2>2. CASE AccountLeft
    <3>1. NextTurn(Tail(cycle.todo)) /\ accounts' = accounts
        BY <1>1, <2>2 DEF MarkReview, TouchLastCheck, TurnEnds
    <3> QED BY <2>1, <3>1, TurnIsOver, AccountsStay, ListAside DEF ListInv
  <2>3. CASE ~AccountLeft
    <3>1. Discovered /\ cycle.account \in DOMAIN accounts
        BY <1>1, <2>3 DEF MarkReview, TouchLastCheck, AccountLeft
    <3>2. \/ accounts' = [accounts EXCEPT ![cycle.account].review = TRUE]
          \/ accounts' = [accounts EXCEPT ![cycle.account].check = "fresh"]
        BY <1>1, <2>3 DEF MarkReview, TouchLastCheck
    <3>3. /\ DOMAIN accounts' = DOMAIN accounts
          /\ \A i \in DOMAIN accounts : /\ accounts'[i] \in Row
                                        /\ accounts'[i].name = accounts[i].name
      <4>1. \A i \in DOMAIN accounts : accounts[i] \in Row
          BY DEF ListInv, AccountsOK
      <4>2. CASE accounts' = [accounts EXCEPT ![cycle.account].review = TRUE]
          BY <4>1, <4>2 DEF Row
      <4>3. CASE accounts' = [accounts EXCEPT ![cycle.account].check = "fresh"]
          BY <4>1, <4>3 DEF Row
      <4> QED BY <3>2, <4>2, <4>3
    <3> QED BY <2>1, <3>1, <3>3, GoesOn, AccountWritten, ListAside DEF ListInv
  <2> QED BY <2>2, <2>3
<1>3. ASSUME NEW v, NEW s, Settles(v, s), UNCHANGED <<accounts, owners>>
      PROVE  ListInv'
  <2>1. /\ DOMAIN rows' = DOMAIN rows
        /\ \A w \in DOMAIN rows : rows'[w].account = rows[w].account
        /\ cycle' = [cycle EXCEPT !.pc = "download", !.pending = @ \ {v}]
    <3>1. rows' = [rows EXCEPT ![v].status = s]
        BY <1>3 DEF Settles
    <3>2. \A w \in DOMAIN rows : rows'[w] = IF w = v THEN [rows[w] EXCEPT !.status = s] ELSE rows[w]
        BY <3>1
    <3>3. \A r : [r EXCEPT !.status = s].account = r.account
        OBVIOUS
    <3> QED BY <1>3, <3>1, <3>2, <3>3 DEF Settles
  <2>2. CycleOK' /\ cycle'.pc = "download"
      BY <2>1 DEF ListInv, CycleOK
  <2> QED BY <1>3, <2>1, <2>2, AccountsStay, ListAside DEF ListInv
<1>4. CASE DiskFullPersisted
    BY <1>3, <1>4 DEF DiskFullPersisted, KeepButRows
<1>5. CASE \E v \in Videos : Download(v)
    BY <1>3, <1>5 DEF Download, KeepButRows
<1>6. CASE \E v \in Videos : DiskFull(v)
  <2>1. PICK v \in Videos : cycle' = [cycle EXCEPT !.pc = "enospc", !.entries = {v}]
      BY <1>6 DEF DiskFull
  <2>2. CycleOK' /\ cycle'.pc = "enospc"
      BY <2>1 DEF ListInv, CycleOK
  <2>3. UNCHANGED <<accounts, owners, rows>>
      BY <1>6 DEF DiskFull, KeepButCycle
  <2> QED BY <2>2, <2>3, AccountsStay, ListAside DEF ListInv
<1> QED BY <1>1, <1>4, <1>5, <1>6

\* A new account has an id and a username of its own.
LEMMA AccountAdded ==
    ASSUME AccountsOK, NEW a \in Accounts, NEW mode \in {"monitor", "history"}, AddAccount(a, mode)
    PROVE  /\ AccountsOK' /\ owners \subseteq owners'
           /\ \A i \in DOMAIN accounts : i \in DOMAIN accounts' /\ accounts'[i] = accounts[i]
<1>1. PICK n \in Nat : DOMAIN accounts \subseteq 1..n
    BY DEF AccountsOK
<1>2. PICK id : id = NextId(accounts)
    OBVIOUS
<1>3. id \in 1..(n + 1) /\ id \notin DOMAIN accounts
    BY <1>1, <1>2, NextIdNext
<1>4. /\ accounts' = WithRow(accounts, id, NewAccount(a, mode))
      /\ owners' = owners \cup {<<id, a>>} /\ Gone(a)
    BY <1>2 DEF AddAccount
<1>5. /\ DOMAIN accounts' = DOMAIN accounts \cup {id} /\ accounts'[id] = NewAccount(a, mode)
      /\ \A i \in DOMAIN accounts : accounts'[i] = accounts[i]
    BY <1>3, <1>4 DEF WithRow
<1>6. accounts'[id] \in Row /\ accounts'[id].name = a
    BY <1>5 DEF NewAccount, Row
<1>7. \A i \in DOMAIN accounts : accounts[i].name # a
    BY <1>4 DEF Gone, Named
<1>8. DOMAIN accounts' \subseteq 1..(n + 1) /\ n + 1 \in Nat /\ id \in Nat \ {NoId}
    BY <1>1, <1>3, <1>5 DEF NoId
<1>9. \A i \in DOMAIN accounts' : accounts'[i] \in Row /\ <<i, accounts'[i].name>> \in owners'
    BY <1>4, <1>5, <1>6 DEF AccountsOK
<1>10. \A i, k \in DOMAIN accounts' : accounts'[k].name = accounts'[i].name => k = i
    BY <1>5, <1>6, <1>7 DEF AccountsOK
<1>11. owners' \subseteq (Nat \ {NoId}) \X Accounts
    BY <1>4, <1>8 DEF AccountsOK
<1> QED BY <1>4, <1>5, <1>8, <1>9, <1>10, <1>11 DEF AccountsOK

\* The commands, another task's rows and the clock.
LEMMA OthersKeep ==
    ASSUME ListInv,
           AccountCommands \/ (\E v \in Videos : OtherInserts(v))
             \/ \E a \in Accounts : CheckAges(a)
    PROVE  ListInv'
<1> USE DEF KeepButAccounts
<1>0. \A i \in DOMAIN accounts : accounts[i] \in Row
    BY DEF ListInv, AccountsOK
<1>1. ASSUME NEW a \in Accounts, NEW mode \in {"monitor", "history"}, AddAccount(a, mode)
      PROVE  ListInv'
  <2>1. UNCHANGED <<rows, cycle>>
      BY <1>1 DEF AddAccount
  <2> QED BY <1>1, <2>1, AccountAdded, ListAside DEF ListInv, CycleOK
<1>2. ASSUME NEW a \in Accounts,
             (\E value \in BOOLEAN : SetPaused(a, value)) \/ CheckAges(a)
      PROVE  ListInv'
  <2>1. UNCHANGED <<owners, rows, cycle>>
      BY <1>2 DEF SetPaused, CheckAges, KeepButChecks
  <2>2. PICK i : \/ \E value \in BOOLEAN : accounts' = [accounts EXCEPT ![i].paused = value]
                 \/ accounts' = [accounts EXCEPT ![i].check = "old"]
      BY <1>2 DEF SetPaused, CheckAges
  <2>3. /\ DOMAIN accounts' = DOMAIN accounts
        /\ \A k \in DOMAIN accounts : /\ accounts'[k] \in Row
                                      /\ accounts'[k].name = accounts[k].name
      BY <1>0, <2>2 DEF Row
  <2> QED BY <2>1, <2>3, AccountWritten, ListAside DEF ListInv, CycleOK
<1>3. ASSUME NEW a \in Accounts, RemoveCounts(a) PROVE ListInv'
    BY <1>3, AccountsStay, ListAside DEF RemoveCounts, ListInv, CycleOK
<1>4. ASSUME NEW i, RemoveDeletes(i) PROVE ListInv'
  <2>1. UNCHANGED <<rows, cycle, owners>>
      BY <1>4 DEF RemoveDeletes
  <2>2. CASE RowsOf(i) # {}
    <3>1. accounts' = accounts
        BY <1>4, <2>2 DEF RemoveDeletes
    <3> QED BY <2>1, <3>1, AccountsStay, ListAside DEF ListInv, CycleOK
  <2>3. CASE RowsOf(i) = {}
    <3>1. accounts' = [k \in DOMAIN accounts \ {i} |-> accounts[k]]
        BY <1>4, <2>3 DEF RemoveDeletes
    <3>2. /\ DOMAIN accounts' = DOMAIN accounts \ {i}
          /\ \A k \in DOMAIN accounts' : accounts'[k] = accounts[k]
        BY <3>1
    <3>3. AccountsOK'
        BY <2>1, <3>2 DEF ListInv, AccountsOK
    <3>4. NoOrphanVideos'
      <4>1. \A v \in DOMAIN rows : rows[v].account # i
          BY <2>3 DEF RowsOf
      <4> QED BY <2>1, <3>2, <4>1 DEF ListInv, NoOrphanVideos, Shared
    <3> QED BY <2>1, <3>3, <3>4 DEF ListInv, CycleOK, EntriesOK, Turn
  <2> QED BY <2>2, <2>3
<1>5. ASSUME NEW v \in Videos, OtherInserts(v) PROVE ListInv'
  <2>1. UNCHANGED <<accounts, owners, cycle>> /\ v \notin DOMAIN rows
      BY <1>5 DEF OtherInserts, KeepButVideos
  <2>2. PICK i \in DOMAIN accounts :
           <<i, Author[v]>> \in owners /\ rows' = WithRow(rows, v, Pending(i))
      BY <1>5 DEF OtherInserts
  <2>3. NoOrphanVideos'
      BY <2>1, <2>2, RowIsOwn DEF ListInv
  <2>4. DOMAIN rows' = DOMAIN rows \cup {v}
      BY <2>2 DEF WithRow
  <2>5. AccountsOK' /\ CycleOK'
      BY <2>1, AccountsStay DEF ListInv, CycleOK
  <2> QED BY <2>1, <2>3, <2>4, <2>5 DEF ListInv, EntriesOK, Turn
<1> QED BY <1>1, <1>2, <1>3, <1>4, <1>5 DEF AccountCommands

\* Everything else leaves accounts, rows and the cycle alone, but for a cycle
\* that is launched.
LEMMA RestKeeps ==
    ASSUME ListInv,
           \/ HeartbeatJob \/ CollectJob \/ ValidateJob \/ RefreshJob
           \/ (DiskJob \/ NetworkJob) /\ OnlyGuards
           \/ \E a \in Accounts : ProfileAges(a)
           \/ CookieCommands /\ OnlyCookies
           \/ ResumeCommand \/ \E on \in BOOLEAN : SetMonitor(on)
           \/ (ProbesGo \/ \E f \in Files : Expire(f)) /\ OnlyCookies
           \/ (NetworkChanges \/ DiskChanges) /\ OnlyGuards
           \/ \E v \in Videos : Publish(v)
           \/ UNCHANGED vars
    PROVE  ListInv'
<1>1. UNCHANGED <<accounts, owners, rows>>
    BY DEF HeartbeatJob, CollectJob, ValidateJob, RefreshJob, EnsureBegins, HeartbeatLaunches,
           CollectEnsured, ValidateEnsured, RefreshBegins, PageLoads, PageFails, ProfileWritten,
           OnlyGuards, OnlyCookies, KeepAll, KeepButCycle, KeepButRefresh, monitorVars, ProfileAges,
           ResumeCommand, SetMonitor, Publish, vars
<1>2. cycle' = cycle \/ cycle' = [NoCycle EXCEPT !.pc = "start"]
    BY DEF HeartbeatJob, CollectJob, ValidateJob, RefreshJob, EnsureBegins, HeartbeatLaunches,
           CollectEnsured, ValidateEnsured, RefreshBegins, PageLoads, PageFails, ProfileWritten,
           OnlyGuards, OnlyCookies, KeepAll, KeepButCycle, KeepButRefresh, monitorVars, ProfileAges,
           ResumeCommand, SetMonitor, Publish, vars
<1>3. CycleOK' /\ (cycle' = cycle \/ cycle'.pc \notin AccountPcs)
    BY <1>2 DEF ListInv, CycleOK, NoCycle, ListingPcs, AccountPcs
<1> QED BY <1>1, <1>3, AccountsStay, ListAside DEF ListInv

LEMMA ListInductive == ListInv /\ [Next]_vars => ListInv'
<1> SUFFICES ASSUME ListInv, [Next]_vars PROVE ListInv'
    OBVIOUS
<1>1. CASE CycleSteps
    BY <1>1, GateKeeps, ListingKeeps, LookUpKeeps, InsertKeeps, WriteKeeps DEF CycleSteps
<1>2. CASE World
    BY <1>2, WriteKeeps, OthersKeep, RestKeeps DEF World
<1>3. CASE ~CycleSteps /\ ~World
    BY <1>3, OthersKeep, RestKeeps DEF Next
<1> QED BY <1>1, <1>2, <1>3

LEMMA ListInvariant == Spec => []ListInv
<1>1. Init /\ [][Next]_vars => []ListInv
    BY ListInit, ListInductive, PTL
<1> QED BY <1>1, PTL DEF Spec

\* A removal never takes an account away from its videos, however the counting,
\* the listing of its feed and other tasks' rows interleave.
THEOREM RemovalsRespectVideos == Spec => []NoOrphanVideos
<1>1. ListInv => NoOrphanVideos
    BY DEF ListInv
<1> QED BY <1>1, ListInvariant, PTL

\* Nobody but the end of a listing marks an account as checked.
LEMMA OnlyTouchChecks ==
    ASSUME ListInv, [Next]_vars, NEW i \in DOMAIN accounts \cap DOMAIN accounts',
           accounts'[i].check = "fresh", accounts[i].check # "fresh"
    PROVE  TouchLastCheck /\ ~AccountLeft /\ i = cycle.account
<1>0. \A k \in DOMAIN accounts : accounts[k] \in Row
    BY DEF ListInv, AccountsOK
<1>1. ASSUME NEW k, \/ accounts' = [accounts EXCEPT ![k].review = TRUE]
                    \/ \E value : accounts' = [accounts EXCEPT ![k].paused = value]
                    \/ accounts' = [accounts EXCEPT ![k].check = "old"]
      PROVE  FALSE
    BY <1>0, <1>1 DEF Row
<1>2. CASE MarkReview
    BY <1>1, <1>2 DEF MarkReview
<1>3. CASE TouchLastCheck
  <2>1. ~AccountLeft
      BY <1>3 DEF TouchLastCheck
  <2>2. accounts' = [accounts EXCEPT ![cycle.account].check = "fresh"]
      BY <1>3, <2>1 DEF TouchLastCheck
  <2>3. i = cycle.account
      BY <1>0, <2>2
  <2> QED BY <1>3, <2>1, <2>3
<1>4. CASE AccountCommands
  <2>1. ASSUME NEW a \in Accounts, NEW mode \in {"monitor", "history"}, AddAccount(a, mode)
        PROVE  FALSE
      BY <2>1, AccountAdded DEF ListInv
  <2>2. ASSUME NEW a, NEW value, SetPaused(a, value) PROVE FALSE
      BY <1>1, <2>2 DEF SetPaused
  <2>3. ASSUME NEW k, RemoveDeletes(k) PROVE FALSE
      BY <2>3 DEF RemoveDeletes
  <2>4. ASSUME NEW a, RemoveCounts(a) PROVE FALSE
      BY <2>4 DEF RemoveCounts
  <2> QED BY <1>4, <2>1, <2>2, <2>3, <2>4 DEF AccountCommands
<1>5. CASE \E a \in Accounts : CheckAges(a)
    BY <1>1, <1>5 DEF CheckAges
<1>6. CASE CycleSteps /\ ~MarkReview /\ ~TouchLastCheck
    BY <1>6 DEF CycleSteps, CycleStarts, CookieGate, StopForCookies, FlagGate, SelectAccounts,
                TurnBegins, ListingReturns, ListingEmpty, ListingRefused, ListingFails, Listing,
                LookUp, Insert, TurnCookieGate, TurnStopsForCookies, TurnFlagGate, SelectPendings,
                Download, PendingsDone, DiskFullPersisted, KeepCycleOnly, KeepButCycle,
                KeepButFlag, KeepButRows
<1>7. CASE World
    BY <1>7 DEF World, OnlyCookies, OnlyGuards, KeepAll, monitorVars, Publish, OtherInserts,
                DiskFull, KeepButCycle
<1>8. CASE HeartbeatJob \/ CollectJob \/ ValidateJob \/ RefreshJob
    BY <1>8 DEF HeartbeatJob, CollectJob, ValidateJob, RefreshJob, EnsureBegins, HeartbeatLaunches,
                CollectEnsured, ValidateEnsured, RefreshBegins, PageLoads, PageFails,
                ProfileWritten, OnlyCookies, KeepAll, KeepButCycle, KeepButRefresh, monitorVars
<1>9. CASE \/ (DiskJob \/ NetworkJob) /\ OnlyGuards
           \/ \E a \in Accounts : ProfileAges(a)
           \/ CookieCommands /\ OnlyCookies
           \/ ResumeCommand \/ \E on \in BOOLEAN : SetMonitor(on)
           \/ UNCHANGED vars
    BY <1>9 DEF OnlyGuards, OnlyCookies, KeepAll, KeepButRefresh, monitorVars, ProfileAges,
                ResumeCommand, SetMonitor, vars
<1> QED BY <1>2, <1>3, <1>4, <1>5, <1>6, <1>7, <1>8, <1>9 DEF Next

\* A check counts as done only when all that the feed showed is on record,
\* and it counts for the account that was listed or for one that got its id.
THEOREM ChecksAreComplete == Spec => CompletedCheckStored
<1>1. ASSUME ListInv, [Next]_vars, NEW i \in DOMAIN accounts \cap DOMAIN accounts',
             accounts'[i].check = "fresh", accounts[i].check # "fresh"
      PROVE  cycle.listed \subseteq DOMAIN rows /\ (accounts[i].name = Turn \/ Shared(i))
  <2>1. cycle.pc = "touch" /\ i = cycle.account
      BY <1>1, OnlyTouchChecks DEF TouchLastCheck, At
  <2>2. cycle.listed \subseteq DOMAIN rows /\ <<i, Turn>> \in owners
      BY <1>1, <2>1 DEF ListInv, EntriesOK, AccountPcs
  <2>3. accounts[i].name = Turn \/ Shared(i)
      BY <1>1, <2>2, OwnOrShared DEF ListInv
  <2> QED BY <2>2, <2>3
<1>2. ListInv /\ [Next]_vars =>
        [\A i \in DOMAIN accounts \cap DOMAIN accounts' :
            accounts'[i].check = "fresh" /\ accounts[i].check # "fresh"
                => /\ cycle.listed \subseteq DOMAIN rows
                   /\ accounts[i].name = Turn \/ Shared(i)]_vars
    BY <1>1
<1>3. Init /\ [][Next]_vars => CompletedCheckStored
    BY <1>2, ListInit, ListInductive, PTL DEF CompletedCheckStored
<1> QED BY <1>3, PTL DEF Spec

-----------------------------------------------------------------------------
(* The verdicts on cookies.                                                *)

StoreOK == \A i \in DOMAIN stored : stored[i] = [file |-> stored[i].file, state |-> stored[i].state]

ValOK ==
    /\ val = [v \in Validators |-> val[v]]
    /\ \A v \in Validators :
           val[v] = [pc |-> val[v].pc, todo |-> val[v].todo, file |-> val[v].file,
                     verdict |-> val[v].verdict]

\* The row a validator has read may have gone, or given its id to another.
ProbedRow(v) ==
    LET i == Head(val[v].todo)
    IN  /\ i \in issued
        /\ i \in DOMAIN stored => stored[i].file = val[v].file \/ i \in reissued

VerdictInv ==
    /\ StoreOK /\ ValOK
    /\ DOMAIN stored \subseteq issued
    /\ \A v \in Validators :
           /\ val[v].pc \in {"probe", "write"} => ProbedRow(v)
           /\ val[v].pc = "write" /\ val[v].verdict = "invalid"
                  => <<Head(val[v].todo), val[v].file>> \in refused
    /\ InvalidWasAnswered

verdictVars == <<stored, val, refused, issued, reissued>>

LEMMA VerdictInit == Init => VerdictInv
<1> SUFFICES ASSUME Init PROVE VerdictInv
    OBVIOUS
<1>1. \A i \in DOMAIN stored : \E f : stored[i] = [file |-> f, state |-> "inconclusive"]
    BY DEF Init, CookiesInit
<1>2. ValOK /\ \A v \in Validators : val[v].pc = "idle"
    BY DEF Init, CookiesInit, ValOK, Idle
<1>3. issued = DOMAIN stored
    BY DEF Init, CookiesInit
<1> QED BY <1>1, <1>2, <1>3 DEF VerdictInv, StoreOK, InvalidWasAnswered

\* The actions that touch none of it.
LEMMA VerdictAside ==
    ASSUME [Next]_vars, ~CookieCommands, ~ValidateJob
    PROVE  UNCHANGED verdictVars
<1> USE DEF verdictVars, cookieVars, KeepStore, KeepUses
<1>1. CASE HeartbeatJob \/ CollectJob \/ RefreshJob
    BY <1>1 DEF HeartbeatJob, CollectJob, RefreshJob, EnsureBegins, EnsureReads, EngineApply,
                HeartbeatLaunches, CollectEnsured, RefreshBegins, PageLoads, PageFails,
                ProfileWritten, KeepButEngine, KeepButRefresh
<1>2. CASE CycleSteps
  <2>1. CASE CycleStarts \/ CookieGate \/ FlagGate \/ TurnBegins \/ ListingReturns
             \/ TurnCookieGate \/ TurnFlagGate \/ PendingsDone \/ \E v \in Videos : LookUp(v)
      BY <2>1 DEF CycleStarts, CookieGate, FlagGate, TurnBegins, ListingReturns, Listing,
                  TurnCookieGate, TurnFlagGate, PendingsDone, LookUp, KeepCycleOnly
  <2>6. CASE SelectAccounts \/ SelectPendings
      BY <2>6 DEF SelectAccounts, SelectPendings, KeepCycleOnly
  <2>2. CASE ListingEmpty \/ ListingRefused \/ ListingFails
      BY <2>2 DEF ListingEmpty, ListingRefused, ListingFails, Listing
  <2>3. CASE StopForCookies \/ TurnStopsForCookies
      BY <2>3 DEF StopForCookies, TurnStopsForCookies, KeepButFlag
  <2>4. CASE MarkReview \/ TouchLastCheck
      BY <2>4 DEF MarkReview, TouchLastCheck
  <2>5. CASE DiskFullPersisted \/ \E v \in Videos : Insert(v) \/ Download(v)
      BY <2>5 DEF DiskFullPersisted, Insert, Download, KeepButRows
  <2> QED BY <1>2, <2>1, <2>2, <2>3, <2>4, <2>5, <2>6 DEF CycleSteps
<1>3. CASE (DiskJob \/ NetworkJob) /\ OnlyGuards
    BY <1>3 DEF OnlyGuards
<1>4. CASE \E a \in Accounts : CheckAges(a) \/ ProfileAges(a)
    BY <1>4 DEF CheckAges, ProfileAges, KeepButRefresh
<1>5. CASE AccountCommands \/ ResumeCommand \/ \E on \in BOOLEAN : SetMonitor(on)
    BY <1>5 DEF AccountCommands, AddAccount, SetPaused, RemoveCounts, RemoveDeletes, KeepButAccounts,
                ResumeCommand, SetMonitor
<1>6. CASE World
    BY <1>6 DEF World, Expire, ProbesGo, OnlyGuards, Publish, OtherInserts, DiskFull
<1>7. CASE UNCHANGED vars
    BY <1>7 DEF vars
<1> QED BY <1>1, <1>2, <1>3, <1>4, <1>5, <1>6, <1>7 DEF Next

LEMMA VerdictFrame ==
    ASSUME VerdictInv, UNCHANGED verdictVars
    PROVE  VerdictInv'
BY DEF VerdictInv, StoreOK, ValOK, ProbedRow, InvalidWasAnswered, verdictVars

\* A validation goes on, or ends, with nothing on its hands.
LEMMA ValidationMoves ==
    ASSUME VerdictInv, NEW v \in Validators, NEW r, val' = [val EXCEPT ![v] = r],
           r = [pc |-> r.pc, todo |-> r.todo, file |-> r.file, verdict |-> r.verdict],
           r.pc \notin {"probe", "write"}, UNCHANGED <<stored, refused, issued, reissued>>
    PROVE  VerdictInv'
<1> USE DEF VerdictInv
<1>1. \A w \in Validators : val'[w] = IF w = v THEN r ELSE val[w]
    BY DEF ValOK
<1>2. ValOK'
    BY <1>1 DEF ValOK
<1>3. \A w \in Validators :
        /\ val'[w].pc \in {"probe", "write"} => ProbedRow(w)'
        /\ val'[w].pc = "write" /\ val'[w].verdict = "invalid"
               => <<Head(val'[w].todo), val'[w].file>> \in refused'
    BY <1>1 DEF ProbedRow
<1> QED BY <1>2, <1>3 DEF StoreOK, InvalidWasAnswered

LEMMA ValShape ==
    ASSUME VerdictInv
    PROVE  /\ DOMAIN val = Validators
           /\ \A v \in Validators :
                  val[v] = [pc |-> val[v].pc, todo |-> val[v].todo, file |-> val[v].file,
                            verdict |-> val[v].verdict]
BY DEF VerdictInv, ValOK

\* A validation is over, or takes its next row.
LEMMA DoneEnds ==
    ASSUME VerdictInv, NEW v \in Validators, Done(v)
    PROVE  \E r : /\ val' = [val EXCEPT ![v] = r]
                  /\ r = [pc |-> r.pc, todo |-> r.todo, file |-> r.file, verdict |-> r.verdict]
                  /\ r.pc \in {"idle", "read"}
<1> DEFINE r == IF Tail(val[v].todo) = <<>> THEN Idle ELSE Reading(Tail(val[v].todo))
<1>1. val' = [val EXCEPT ![v] = r]
    BY DEF Done
<1>2. r = [pc |-> r.pc, todo |-> r.todo, file |-> r.file, verdict |-> r.verdict]
      /\ r.pc \in {"idle", "read"}
    BY DEF Idle, Reading
<1> HIDE DEF r
<1> QED BY <1>1, <1>2

LEMMA AddKeepsVerdicts ==
    ASSUME VerdictInv, NEW f \in Files, AddCookie(f)
    PROVE  VerdictInv'
<1> USE DEF VerdictInv, KeepUses
<1>1. /\ DOMAIN stored' = DOMAIN stored \cup {NextId(stored)}
      /\ \A i \in DOMAIN stored \ {NextId(stored)} : stored'[i] = stored[i]
      /\ stored'[NextId(stored)] = [file |-> f, state |-> "inconclusive"]
    BY DEF AddCookie, WithRow
<1>2. /\ issued' = issued \cup {NextId(stored)} /\ UNCHANGED <<val, refused>>
      /\ reissued \subseteq reissued' /\ (NextId(stored) \in issued => NextId(stored) \in reissued')
    BY DEF AddCookie
<1>3. StoreOK' /\ InvalidWasAnswered'
    BY <1>1, <1>2 DEF StoreOK, InvalidWasAnswered
<1>4. \A v \in Validators : ProbedRow(v) => ProbedRow(v)'
    BY <1>1, <1>2 DEF ProbedRow
<1> QED BY <1>1, <1>2, <1>3, <1>4 DEF ValOK

LEMMA RemoveKeepsVerdicts ==
    ASSUME VerdictInv, NEW i \in Ids, RemoveCookie(i)
    PROVE  VerdictInv'
<1> USE DEF VerdictInv, KeepUses
<1>1. /\ DOMAIN stored' = DOMAIN stored \ {i}
      /\ \A k \in DOMAIN stored' : stored'[k] = stored[k]
      /\ UNCHANGED <<val, refused, issued, reissued>>
    BY DEF RemoveCookie
<1> QED BY <1>1 DEF StoreOK, InvalidWasAnswered, ProbedRow, ValOK

\* It reads its row: who it is of, is known.
LEMMA ReadKeepsVerdicts ==
    ASSUME VerdictInv, NEW v \in Validators, ReadBlob(v)
    PROVE  VerdictInv'
<1> USE DEF VerdictInv, KeepButVal, KeepStore
<1> DEFINE i == Head(val[v].todo)
<1>1. UNCHANGED <<stored, refused, issued, reissued>>
    BY DEF ReadBlob
<1>2. CASE i \notin DOMAIN stored
    BY <1>1, <1>2, ValidationMoves DEF ReadBlob, Aborts, Idle
<1>3. CASE i \in DOMAIN stored
  <2>1. val' = [val EXCEPT ![v] = [pc |-> "probe", todo |-> @.todo,
                                   file |-> stored[i].file, verdict |-> "none"]]
      BY <1>3 DEF ReadBlob
  <2> HIDE DEF VerdictInv, i
  <2>2. \A w \in Validators : w # v => val'[w] = val[w]
      BY <2>1, ValShape
  <2>3. val'[v] = [pc |-> "probe", todo |-> val[v].todo, file |-> stored[i].file,
                   verdict |-> "none"]
      BY <2>1, ValShape
  <2>4. ValOK'
    <3>1. val' = [w \in Validators |-> val'[w]]
        BY <2>1, ValShape
    <3> QED BY <2>2, <2>3, <3>1, ValShape DEF ValOK
  <2> USE DEF VerdictInv, i
  <2>5. ProbedRow(v)'
      BY <1>1, <1>3, <2>3 DEF ProbedRow
  <2>6. \A w \in Validators : w # v => (ProbedRow(w) <=> ProbedRow(w)')
      BY <1>1, <2>2 DEF ProbedRow
  <2> QED BY <1>1, <2>2, <2>3, <2>4, <2>5, <2>6 DEF StoreOK, InvalidWasAnswered
<1> QED BY <1>2, <1>3

LEMMA ProbeKeepsVerdicts ==
    ASSUME VerdictInv, NEW v \in Validators, Probe(v)
    PROVE  VerdictInv'
<1> USE DEF VerdictInv, KeepStore
<1>1. UNCHANGED <<stored, issued, reissued>> /\ refused \subseteq refused'
    BY DEF Probe
<1>2. CASE Done(v) /\ UNCHANGED refused
    BY <1>1, <1>2, DoneEnds, ValidationMoves
<1>3. ASSUME NEW verdict, verdict = "invalid" => <<Head(val[v].todo), val[v].file>> \in refused',
             Judges(v, verdict)
      PROVE  VerdictInv'
  <2>1. val[v].pc = "probe"
      BY DEF Probe
  <2> HIDE DEF VerdictInv
  <2>2. val'[v] = [pc |-> "write", todo |-> val[v].todo, file |-> val[v].file,
                   verdict |-> verdict]
      BY <1>3, ValShape DEF Judges
  <2>3. \A w \in Validators : w # v => val'[w] = val[w]
      BY <1>3, ValShape DEF Judges
  <2>4. ValOK'
    <3>1. val' = [w \in Validators |-> val'[w]]
        BY <1>3, ValShape DEF Judges
    <3> QED BY <2>2, <2>3, <3>1, ValShape DEF ValOK
  <2> USE DEF VerdictInv
  <2>5. \A w \in Validators : ProbedRow(w) => ProbedRow(w)'
      BY <1>1, <2>2, <2>3 DEF ProbedRow
  <2>6. \A w \in Validators :
          /\ val'[w].pc \in {"probe", "write"} => ProbedRow(w)'
          /\ val'[w].pc = "write" /\ val'[w].verdict = "invalid"
               => <<Head(val'[w].todo), val'[w].file>> \in refused'
      BY <1>1, <1>3, <2>1, <2>2, <2>3, <2>5
  <2>7. StoreOK' /\ InvalidWasAnswered' /\ DOMAIN stored' \subseteq issued'
      BY <1>1 DEF StoreOK, InvalidWasAnswered
  <2> QED BY <2>4, <2>6, <2>7
<1>4. \/ Done(v) /\ UNCHANGED refused
      \/ \E verdict : /\ verdict = "invalid" => <<Head(val[v].todo), val[v].file>> \in refused'
                      /\ Judges(v, verdict)
    BY DEF Probe
<1> QED BY <1>2, <1>3, <1>4

LEMMA WriteKeepsVerdicts ==
    ASSUME VerdictInv, NEW v \in Validators, WriteVerdict(v)
    PROVE  VerdictInv'
<1> USE DEF VerdictInv
<1> DEFINE i == Head(val[v].todo)
<1>1. UNCHANGED <<refused, issued, reissued>> /\ val[v].pc = "write"
    BY DEF WriteVerdict
<1>2. CASE i \notin DOMAIN stored
    BY <1>1, <1>2, ValidationMoves DEF WriteVerdict, Aborts, Idle
<1>3. CASE i \in DOMAIN stored
  <2>1. stored' = [stored EXCEPT ![i].state = val[v].verdict] /\ Done(v)
      BY <1>3 DEF WriteVerdict
  <2>2. /\ DOMAIN stored' = DOMAIN stored
        /\ \A k \in DOMAIN stored : stored'[k].file = stored[k].file
        /\ \A k \in DOMAIN stored \ {i} : stored'[k] = stored[k]
        /\ stored'[i] = [file |-> stored[i].file, state |-> val[v].verdict]
      BY <1>3, <2>1 DEF StoreOK
  <2>3. StoreOK'
      BY <2>2 DEF StoreOK
  <2>4. InvalidWasAnswered'
    <3>1. \A k \in DOMAIN stored \ {i} :
            stored'[k].state = "invalid" =>
                \/ <<k, stored'[k].file>> \in refused
                \/ k \in reissued /\ \E p \in refused : p[1] = k
        BY <2>2 DEF InvalidWasAnswered
    <3>2. ASSUME val[v].verdict = "invalid"
          PROVE  \/ <<i, stored[i].file>> \in refused
                 \/ i \in reissued /\ \E p \in refused : p[1] = i
      <4>1. PICK p : p = <<i, val[v].file>>
          OBVIOUS
      <4>2. p \in refused /\ p[1] = i
          BY <1>1, <3>2, <4>1
      <4>3. stored[i].file = val[v].file \/ i \in reissued
          BY <1>1, <1>3 DEF ProbedRow
      <4> QED BY <4>1, <4>2, <4>3
    <3> QED BY <1>1, <2>2, <3>1, <3>2 DEF InvalidWasAnswered
  <2>5. \A w \in Validators : w # v => val'[w] = val[w]
      BY <2>1 DEF Done, ValOK
  <2>6. val'[v] = [pc |-> val'[v].pc, todo |-> val'[v].todo, file |-> val'[v].file,
                   verdict |-> val'[v].verdict]
        /\ val'[v].pc \in {"idle", "read"}
    <3>1. PICK r : /\ val' = [val EXCEPT ![v] = r]
                   /\ r = [pc |-> r.pc, todo |-> r.todo, file |-> r.file, verdict |-> r.verdict]
                   /\ r.pc \in {"idle", "read"}
        BY <2>1, DoneEnds
    <3>2. val'[v] = r
        BY <3>1, ValShape
    <3> QED BY <3>1, <3>2
  <2>7. ValOK'
      BY <2>1, <2>5, <2>6 DEF Done, ValOK
  <2>8. \A w \in Validators : w # v => (ProbedRow(w) => ProbedRow(w)')
      BY <1>1, <2>2, <2>5 DEF ProbedRow
  <2> QED BY <1>1, <2>2, <2>3, <2>4, <2>5, <2>6, <2>7, <2>8
<1> QED BY <1>2, <1>3

LEMMA VerdictInductive == VerdictInv /\ [Next]_vars => VerdictInv'
<1> SUFFICES ASSUME VerdictInv, [Next]_vars PROVE VerdictInv'
    OBVIOUS
<1> USE DEF Validators
<1>1. ASSUME NEW v \in Validators, ReadBlob(v) \/ Probe(v) \/ WriteVerdict(v)
      PROVE  VerdictInv'
    BY <1>1, ReadKeepsVerdicts, ProbeKeepsVerdicts, WriteKeepsVerdicts
<1>2. CASE CookieCommands
  <2>1. ASSUME NEW i \in Ids, TestCookie(i) PROVE VerdictInv'
    <3> DEFINE r == Reading(<<i>>)
    <3>1. val' = [val EXCEPT !["test"] = r] /\ UNCHANGED <<stored, refused, issued, reissued>>
        BY <2>1 DEF TestCookie, KeepButVal, KeepStore
    <3>2. r = [pc |-> r.pc, todo |-> r.todo, file |-> r.file, verdict |-> r.verdict]
          /\ r.pc = "read"
        BY DEF Reading
    <3> HIDE DEF r
    <3> QED BY <3>1, <3>2, ValidationMoves
  <2> QED BY <1>1, <1>2, <2>1, AddKeepsVerdicts, RemoveKeepsVerdicts DEF CookieCommands
<1>3. CASE ValidateJob
  <2>1. CASE EnsureBegins("validate")
      BY <2>1, VerdictFrame DEF EnsureBegins, EnsureReads, KeepStore, verdictVars
  <2>2. CASE ValidateEnsured
    <3>1. UNCHANGED <<stored, refused, issued, reissued>>
        BY <2>2 DEF ValidateEnsured, KeepButEngine, KeepStore
    <3>2. CASE UNCHANGED val
        BY <3>1, <3>2, VerdictFrame DEF verdictVars
    <3>3. CASE Goes("validate", "list")
      <4> DEFINE r == [pc |-> "list", todo |-> val["validate"].todo,
                       file |-> val["validate"].file, verdict |-> val["validate"].verdict]
      <4>1. val' = [val EXCEPT !["validate"] = r]
        <5>1. /\ val["validate"] = [r EXCEPT !.pc = val["validate"].pc]
              /\ "validate" \in DOMAIN val
            BY ValShape
        <5>2. [val["validate"] EXCEPT !.pc = "list"] = r
            BY <5>1
        <5> QED BY <3>3, <5>1, <5>2 DEF Goes
      <4> HIDE DEF r
      <4>2. r = [pc |-> r.pc, todo |-> r.todo, file |-> r.file, verdict |-> r.verdict]
            /\ r.pc = "list"
          BY DEF r
      <4> QED BY <3>1, <4>1, <4>2, ValidationMoves
    <3> QED BY <2>2, <3>2, <3>3 DEF ValidateEnsured
  <2>3. CASE BatchReads
    <3> DEFINE r == IF Usable = {} THEN Idle ELSE Reading(InOrder(Usable))
    <3>1. val' = [val EXCEPT !["validate"] = r]
        BY <2>3 DEF BatchReads
    <3>3. r = [pc |-> r.pc, todo |-> r.todo, file |-> r.file, verdict |-> r.verdict]
          /\ r.pc \in {"idle", "read"}
        BY DEF Idle, Reading
    <3> HIDE DEF r
    <3>2. UNCHANGED <<stored, refused, issued, reissued>>
        BY <2>3 DEF BatchReads, KeepButVal, KeepStore
    <3> QED BY <3>1, <3>2, <3>3, ValidationMoves
  <2> QED BY <1>1, <1>3, <2>1, <2>2, <2>3 DEF ValidateJob
<1>4. CASE ~CookieCommands /\ ~ValidateJob
    BY <1>4, VerdictAside, VerdictFrame
<1> QED BY <1>2, <1>3, <1>4

\* A cookie becomes invalid only because a probe with its session, asked on
\* account of its row, had a definitive answer, whichever jobs and commands
\* change the store between the reading of the session and the writing of the
\* verdict.  That the answer was about the session is not so (InvalidWasProven).
THEOREM VerdictsAreAnswers == Spec => []InvalidWasAnswered
<1>1. VerdictInv => InvalidWasAnswered
    BY DEF VerdictInv
<1>2. Init /\ [][Next]_vars => []VerdictInv
    BY VerdictInit, VerdictInductive, PTL
<1> QED BY <1>1, <1>2, PTL DEF Spec

-----------------------------------------------------------------------------
(***************************************************************************)
(* Types.  What each kind of step leaves alone.                            *)
(***************************************************************************)
LEMMA CycleFrame ==
    ASSUME CycleSteps
    PROVE  /\ UNCHANGED <<cookieVars, guardVars, published, refresh, refreshed, removing, owners>>
           /\ DOMAIN accounts' = DOMAIN accounts /\ monitor' \in {monitor, FALSE}
           /\ UNCHANGED spent \/ Spend("listing")
<1>1. CASE CycleStarts \/ CookieGate \/ FlagGate \/ TurnBegins \/ ListingReturns
           \/ TurnCookieGate \/ TurnFlagGate \/ PendingsDone \/ \E v \in Videos : LookUp(v)
    BY <1>1 DEF CycleStarts, CookieGate, FlagGate, TurnBegins, ListingReturns, Listing,
                TurnCookieGate, TurnFlagGate, PendingsDone, LookUp, KeepCycleOnly, KeepButCycle
<1>6. CASE SelectAccounts \/ SelectPendings
    BY <1>6 DEF SelectAccounts, SelectPendings, KeepCycleOnly, KeepButCycle
<1>2. CASE ListingEmpty \/ ListingRefused \/ ListingFails
    BY <1>2 DEF ListingEmpty, ListingRefused, ListingFails, Listing, KeepButCycle
<1>3. CASE StopForCookies \/ TurnStopsForCookies
    BY <1>3 DEF StopForCookies, TurnStopsForCookies, KeepButFlag
<1>4. CASE MarkReview \/ TouchLastCheck
    BY <1>4 DEF MarkReview, TouchLastCheck
<1>5. CASE DiskFullPersisted \/ \E v \in Videos : Insert(v) \/ Download(v)
    BY <1>5 DEF DiskFullPersisted, Insert, Download, KeepButRows
<1> QED BY <1>1, <1>2, <1>3, <1>4, <1>5, <1>6 DEF CycleSteps

LEMMA JobsFrame ==
    ASSUME HeartbeatJob \/ CollectJob \/ ValidateJob \/ RefreshJob
    PROVE  UNCHANGED <<guardVars, accounts, rows, published, monitor, removing, spent>>
<1> USE DEF KeepAll, KeepButEngine, monitorVars, EnsureBegins
<1>1. CASE HeartbeatJob
    BY <1>1 DEF HeartbeatJob, HeartbeatLaunches, KeepButCycle
<1>2. CASE CollectJob
    BY <1>2 DEF CollectJob, CollectEnsured
<1>3. CASE ValidateJob
    BY <1>3 DEF ValidateJob, ValidateEnsured, OnlyCookies
<1>4. CASE RefreshJob
    BY <1>4 DEF RefreshJob, RefreshBegins, PageLoads, PageFails, ProfileWritten, KeepButRefresh
<1> QED BY <1>1, <1>2, <1>3, <1>4

LEMMA CommandsFrame ==
    ASSUME AccountCommands
    PROVE  UNCHANGED <<cookieVars, guardVars, rows, published, monitor, cycle, refresh, refreshed>>
BY DEF AccountCommands, AddAccount, SetPaused, RemoveCounts, RemoveDeletes, KeepButAccounts

-----------------------------------------------------------------------------
(* The guards.                                                             *)

LEMMA GuardsTyped == GuardsTypeOK /\ [Next]_vars => GuardsTypeOK'
<1> SUFFICES ASSUME GuardsTypeOK, [Next]_vars PROVE GuardsTypeOK'
    OBVIOUS
<1>0. ASSUME UNCHANGED guardVars PROVE GuardsTypeOK'
    BY <1>0 DEF GuardsTypeOK, guardVars
<1>1. CASE DiskJob
    BY <1>1 DEF GuardsTypeOK, DiskJob, CheckReadsUsage, CheckReadsFlag, CheckWrites, networkVars
<1>2. CASE NetworkJob
  <2>1. \A n \in 0..Threshold : Counted(n) \in 0..Threshold
      BY GuardsAssumption DEF Counted
  <2>2. 0 \in 0..Threshold
      BY GuardsAssumption
  <2> QED BY <1>2, <2>1, <2>2 DEF GuardsTypeOK, NetworkJob, ProbeAnswered, ProbeFails, diskVars
<1>3. CASE ResumeCommand
    BY <1>3 DEF GuardsTypeOK, ResumeCommand, ManualResume, networkVars
<1>4. CASE World
  <2>1. CASE (NetworkChanges \/ DiskChanges) /\ OnlyGuards
      BY <2>1 DEF GuardsTypeOK, NetworkChanges, DiskChanges, networkVars, diskVars
  <2>2. CASE \E v \in Videos : DiskFull(v)
      BY <2>2 DEF GuardsTypeOK, DiskFull, networkVars
  <2>3. CASE (ProbesGo \/ \E f \in Files : Expire(f)) /\ OnlyCookies
      BY <1>0, <2>3 DEF OnlyCookies, KeepAll
  <2>4. CASE \E v \in Videos : Publish(v) \/ OtherInserts(v)
      BY <1>0, <2>4 DEF Publish, OtherInserts
  <2> QED BY <1>4, <2>1, <2>2, <2>3, <2>4 DEF World
<1>5. CASE HeartbeatJob \/ CollectJob \/ ValidateJob \/ RefreshJob
    BY <1>0, <1>5, JobsFrame
<1>6. CASE CycleSteps
    BY <1>0, <1>6, CycleFrame
<1>7. CASE AccountCommands
    BY <1>0, <1>7, CommandsFrame
<1>8. CASE CookieCommands /\ OnlyCookies
    BY <1>0, <1>8 DEF OnlyCookies, KeepAll
<1>9. CASE (\E a \in Accounts : CheckAges(a) \/ ProfileAges(a))
           \/ (\E on \in BOOLEAN : SetMonitor(on)) \/ UNCHANGED vars
    BY <1>0, <1>9 DEF CheckAges, ProfileAges, KeepButRefresh, SetMonitor, vars
<1> QED BY <1>1, <1>2, <1>3, <1>4, <1>5, <1>6, <1>7, <1>8, <1>9 DEF Next

-----------------------------------------------------------------------------
(* The accounts, the flag and the refresh.                                 *)

RowsKnown ==
    /\ removing \subseteq DOMAIN accounts /\ monitor \in BOOLEAN
    /\ \A p \in refreshed : p[1] \in Nat \ {NoId}
    /\ refresh = [pc |-> refresh.pc, todo |-> refresh.todo]
    /\ refresh.pc \in {"off", "page", "write"}

LEMMA RowsKnownInitially == Init => RowsKnown
<1> SUFFICES ASSUME Init PROVE RowsKnown
    OBVIOUS
<1>1. removing = {} /\ refreshed = {} /\ monitor = FALSE
    BY DEF Init
<1>2. refresh = [pc |-> "off", todo |-> <<>>]
    BY DEF Init, NoRefresh
<1> QED BY <1>1, <1>2 DEF RowsKnown

\* The refresh of the profiles.
LEMMA RefreshKnown ==
    ASSUME RowsKnown, AccountsOK, RefreshJob
    PROVE  RowsKnown'
<1>0. UNCHANGED <<accounts, monitor, removing>>
    BY JobsFrame
<1>1. ASSUME NextProfile \/ refresh' = NoRefresh \/ refresh' = refresh
      PROVE  /\ refresh' = [pc |-> refresh'.pc, todo |-> refresh'.todo]
             /\ refresh'.pc \in {"off", "page", "write"}
  <2>1. CASE NextProfile
      BY <2>1 DEF NextProfile, NoRefresh
  <2> QED BY <1>1, <2>1 DEF RowsKnown, NoRefresh
<1>2. CASE EnsureBegins("refresh")
    BY <1>0, <1>2 DEF EnsureBegins, KeepAll, monitorVars, RowsKnown
<1>3. CASE RefreshBegins
    BY <1>0, <1>3 DEF RefreshBegins, RowsKnown, NoRefresh
<1>4. CASE PageLoads
    BY <1>0, <1>4 DEF PageLoads, RowsKnown
<1>5. CASE PageFails
  <2>1. NextProfile /\ UNCHANGED refreshed
      BY <1>5 DEF PageFails
  <2> QED BY <1>0, <1>1, <2>1 DEF RowsKnown
<1>6. CASE ProfileWritten
  <2>1. NextProfile \/ refresh' = NoRefresh
      BY <1>6 DEF ProfileWritten
  <2>2. \A p \in refreshed' : p \in refreshed \/ p[1] \in DOMAIN accounts
      BY <1>6 DEF ProfileWritten
  <2>3. \A i \in DOMAIN accounts : i \in Nat \ {NoId}
      BY DEF AccountsOK, NoId
  <2> QED BY <1>0, <1>1, <2>1, <2>2, <2>3 DEF RowsKnown
<1> QED BY <1>2, <1>3, <1>4, <1>5, <1>6 DEF RefreshJob

LEMMA RowsKnownKept == RowsKnown /\ AccountsOK /\ [Next]_vars => RowsKnown'
<1> SUFFICES ASSUME RowsKnown, AccountsOK, [Next]_vars PROVE RowsKnown'
    OBVIOUS
<1>0. ASSUME UNCHANGED <<refresh, refreshed, removing>>, DOMAIN accounts' = DOMAIN accounts,
             monitor' \in BOOLEAN
      PROVE  RowsKnown'
    BY <1>0 DEF RowsKnown
<1>1. CASE RefreshJob
    BY <1>1, RefreshKnown
<1>2. CASE HeartbeatJob \/ CollectJob \/ ValidateJob
  <2>1. UNCHANGED <<refresh, refreshed>>
      BY <1>2 DEF HeartbeatJob, CollectJob, ValidateJob, EnsureBegins, HeartbeatLaunches,
                  CollectEnsured, ValidateEnsured, KeepAll, KeepButCycle, OnlyCookies, monitorVars
  <2> QED BY <1>0, <1>2, <2>1, JobsFrame DEF RowsKnown
<1>3. CASE CycleSteps
    BY <1>0, <1>3, CycleFrame DEF RowsKnown
<1>4. CASE AccountCommands
  <2>1. UNCHANGED <<monitor, refresh, refreshed>>
      BY <1>4, CommandsFrame
  <2>2. removing' \subseteq DOMAIN accounts'
    <3>1. ASSUME NEW a \in Accounts, NEW mode, AddAccount(a, mode)
          PROVE  removing' \subseteq DOMAIN accounts'
        BY <3>1 DEF AddAccount, WithRow, RowsKnown
    <3>2. ASSUME NEW i, RemoveDeletes(i)
          PROVE  removing' \subseteq DOMAIN accounts'
      <4>1. DOMAIN accounts' \in {DOMAIN accounts, DOMAIN accounts \ {i}}
          BY <3>2 DEF RemoveDeletes
      <4>2. removing' = removing \ {i}
          BY <3>2 DEF RemoveDeletes
      <4> QED BY <4>1, <4>2 DEF RowsKnown
    <3>3. ASSUME NEW a \in Accounts, NEW value, SetPaused(a, value)
          PROVE  removing' \subseteq DOMAIN accounts'
        BY <3>3 DEF SetPaused, RowsKnown
    <3>4. ASSUME NEW a \in Accounts, RemoveCounts(a)
          PROVE  removing' \subseteq DOMAIN accounts'
      <4>1. IdOf(a) \in DOMAIN accounts
          BY <3>4, FoundByName DEF RemoveCounts
      <4> QED BY <3>4, <4>1 DEF RemoveCounts, RowsKnown
    <3> QED BY <1>4, <3>1, <3>2, <3>3, <3>4 DEF AccountCommands
  <2> QED BY <2>1, <2>2 DEF RowsKnown
<1>5. CASE OnlyGuards \/ OnlyCookies \/ UNCHANGED vars
    BY <1>0, <1>5 DEF OnlyGuards, OnlyCookies, KeepAll, monitorVars, vars, RowsKnown
<1>6. CASE \E a \in Accounts : CheckAges(a) \/ ProfileAges(a)
  <2>1. PICK a \in Accounts : CheckAges(a) \/ ProfileAges(a)
      BY <1>6
  <2>2. CASE CheckAges(a)
      BY <1>0, <2>2 DEF CheckAges, RowsKnown
  <2>3. CASE ProfileAges(a)
      BY <2>3 DEF ProfileAges, KeepButRefresh, RowsKnown
  <2> QED BY <2>1, <2>2, <2>3
<1>7. CASE ResumeCommand \/ \E on \in BOOLEAN : SetMonitor(on)
    BY <1>0, <1>7 DEF ResumeCommand, SetMonitor, RowsKnown
<1>8. CASE World
    BY <1>0, <1>8 DEF World, OnlyCookies, OnlyGuards, KeepAll, monitorVars, Publish, OtherInserts,
                      DiskFull, KeepButCycle, RowsKnown
<1> QED BY <1>1, <1>2, <1>3, <1>4, <1>5, <1>6, <1>7, <1>8 DEF Next

-----------------------------------------------------------------------------
(* The cycle, and the videos.                                              *)

Statuses == {"pending", "done", "failed"}
VideosKnown ==
    /\ published \subseteq Videos /\ DOMAIN rows \subseteq published
    /\ \A v \in DOMAIN rows :
           rows[v] = [account |-> rows[v].account, status |-> rows[v].status]
           /\ rows[v].status \in Statuses
CycleKnown ==
    /\ CycleOK /\ cycle.pc \in Pcs /\ cycle.entries \subseteq published
    /\ cycle.pc \in ListingPcs => cycle.entries # {}
    /\ cycle.pending \subseteq {v \in DOMAIN rows : rows[v].status = "pending"}
FeedKnown == VideosKnown /\ CycleKnown

LEMMA FeedKnownInitially == Init => FeedKnown
BY DEF Init, FeedKnown, VideosKnown, CycleKnown, CycleOK, NoCycle, ListingPcs, Pcs

\* A step of the cycle that leaves the videos alone.
LEMMA CycleGoes ==
    ASSUME FeedKnown, UNCHANGED <<rows, published>>, CycleOK', cycle'.pc \in Pcs,
           cycle'.entries \subseteq published,
           cycle'.pc \in ListingPcs => cycle'.entries # {},
           cycle'.pending \subseteq {v \in DOMAIN rows : rows[v].status = "pending"}
    PROVE  FeedKnown'
BY DEF FeedKnown, VideosKnown, CycleKnown

LEMMA GoesTo ==
    ASSUME FeedKnown, UNCHANGED <<rows, published>>, NEW pc \in Pcs, To(pc),
           pc \in ListingPcs => cycle.entries # {}
    PROVE  FeedKnown'
<1>1. /\ CycleOK' /\ cycle'.pc = pc /\ cycle'.entries = cycle.entries
      /\ cycle'.pending = cycle.pending
    BY DEF FeedKnown, CycleKnown, CycleOK, To
<1> QED BY <1>1, CycleGoes DEF FeedKnown, CycleKnown

LEMMA StartsOver ==
    ASSUME FeedKnown, UNCHANGED <<rows, published>>,
           cycle' = NoCycle \/ Discovered \/ \E todo : NextTurn(todo)
    PROVE  FeedKnown'
<1>1. /\ CycleOK' /\ cycle'.pc \in {"off", "turn", "cookies left"} /\ cycle'.entries = {}
      /\ cycle'.pending = {}
  <2>1. CASE cycle' = NoCycle
      BY <2>1 DEF CycleOK, NoCycle
  <2>2. ASSUME NEW todo, NextTurn(todo), cycle' # NoCycle
        PROVE  cycle' = [pc |-> "turn", engine |-> cycle.engine, todo |-> todo,
                         account |-> NoId, entries |-> {}, listed |-> {}, pending |-> {}]
      BY <2>2 DEF NextTurn, NoCycle
  <2>3. ASSUME NEW todo, NextTurn(todo), cycle' # NoCycle
        PROVE  /\ CycleOK' /\ cycle'.pc = "turn" /\ cycle'.entries = {} /\ cycle'.pending = {}
      BY <2>2, <2>3 DEF CycleOK
  <2>4. CASE Discovered
      BY <2>4, GoesOn
  <2>5. CASE \E todo : NextTurn(todo)
      BY <2>1, <2>3, <2>5
  <2> QED BY <2>1, <2>4, <2>5
<1>2. cycle'.pc \in Pcs /\ cycle'.pc \notin ListingPcs
    BY <1>1 DEF Pcs, ListingPcs
<1> QED BY <1>1, <1>2, CycleGoes

LEMMA GatesKnown ==
    ASSUME FeedKnown,
           CycleStarts \/ CookieGate \/ StopForCookies \/ FlagGate \/ SelectAccounts \/ TurnBegins
             \/ TurnCookieGate \/ TurnStopsForCookies \/ TurnFlagGate \/ SelectPendings
             \/ PendingsDone \/ MarkReview \/ TouchLastCheck
    PROVE  FeedKnown'
<1>0. UNCHANGED <<rows, published>>
    BY DEF CycleStarts, CookieGate, StopForCookies, FlagGate, SelectAccounts, TurnBegins,
           TurnCookieGate, TurnStopsForCookies, TurnFlagGate, SelectPendings, PendingsDone,
           MarkReview, TouchLastCheck, KeepCycleOnly, KeepButCycle, KeepButFlag
<1>1. ASSUME \/ \E pc \in Pcs \ ListingPcs : To(pc)
             \/ cycle' = NoCycle \/ Discovered
             \/ \E todo : NextTurn(todo)
      PROVE  FeedKnown'
    BY <1>0, <1>1, GoesTo, StartsOver
<1>2. CASE CycleStarts
  <2>1. /\ CycleOK' /\ cycle'.pc = "cookie" /\ cycle'.entries = cycle.entries
        /\ cycle'.pending = cycle.pending
      BY <1>2 DEF CycleStarts, FeedKnown, CycleKnown, CycleOK
  <2> QED BY <1>0, <2>1, CycleGoes DEF FeedKnown, CycleKnown, Pcs, ListingPcs
<1>3. CASE SelectPendings
  <2>1. CASE Gone(Turn)
    <3>1. NextTurn(Tail(cycle.todo))
        BY <1>3, <2>1 DEF SelectPendings, TurnEnds
    <3> QED BY <1>1, <3>1
  <2>2. CASE ~Gone(Turn)
    <3>1. PICK waiting \in SUBSET {v \in DOMAIN rows : rows[v].status = "pending"} :
             cycle' = [cycle EXCEPT !.pc = "download", !.pending = waiting]
        BY <1>3, <2>2 DEF SelectPendings, RowsOf
    <3>2. /\ CycleOK' /\ cycle'.pc = "download" /\ cycle'.entries = cycle.entries
          /\ cycle'.pending = waiting
        BY <3>1 DEF FeedKnown, CycleKnown, CycleOK
    <3> QED BY <1>0, <3>2, CycleGoes DEF FeedKnown, CycleKnown, Pcs, ListingPcs
  <2> QED BY <2>1, <2>2
<1>4. CASE ~CycleStarts /\ ~SelectPendings
  <2> USE DEF Pcs, ListingPcs
  <2>1. CASE CookieGate \/ TurnCookieGate
    <3>1. \E pc \in Pcs \ ListingPcs : To(pc)
        BY <2>1 DEF CookieGate, TurnCookieGate
    <3> QED BY <1>1, <3>1
  <2>2. CASE StopForCookies \/ SelectAccounts \/ TurnStopsForCookies \/ PendingsDone
    <3>1. cycle' = NoCycle \/ \E todo : NextTurn(todo)
        BY <2>2 DEF StopForCookies, SelectAccounts, TurnStopsForCookies, PendingsDone, TurnEnds
    <3> QED BY <1>1, <3>1
  <2>3. CASE FlagGate
    <3>1. cycle' = NoCycle \/ To("select")
        BY <2>3 DEF FlagGate
    <3> QED BY <1>1, <3>1
  <2>4. CASE TurnBegins
    <3>1. \/ NextTurn(Tail(cycle.todo)) \/ Discovered
          \/ \E i : cycle' = [cycle EXCEPT !.pc = "listing", !.account = i]
        BY <2>4 DEF TurnBegins, TurnEnds
    <3>2. ASSUME NEW i, cycle' = [cycle EXCEPT !.pc = "listing", !.account = i]
          PROVE  FeedKnown'
      <4>1. /\ CycleOK' /\ cycle'.pc = "listing" /\ cycle'.entries = cycle.entries
            /\ cycle'.pending = cycle.pending
          BY <3>2 DEF FeedKnown, CycleKnown, CycleOK
      <4> QED BY <1>0, <4>1, CycleGoes DEF FeedKnown, CycleKnown
    <3> QED BY <1>1, <3>1, <3>2
  <2>5. CASE TurnFlagGate
    <3>1. NextTurn(Tail(cycle.todo)) \/ To("pendings")
        BY <2>5 DEF TurnFlagGate, TurnEnds
    <3> QED BY <1>1, <3>1
  <2>6. CASE MarkReview \/ TouchLastCheck
    <3>1. NextTurn(Tail(cycle.todo)) \/ Discovered
        BY <2>6 DEF MarkReview, TouchLastCheck, TurnEnds
    <3> QED BY <1>1, <3>1
  <2> QED BY <1>4, <2>1, <2>2, <2>3, <2>4, <2>5, <2>6
<1> QED BY <1>2, <1>3, <1>4

LEMMA ListingsKnown ==
    ASSUME FeedKnown, ListingReturns \/ ListingEmpty \/ ListingRefused \/ ListingFails
    PROVE  FeedKnown'
<1>0. UNCHANGED <<rows, published>>
    BY DEF ListingReturns, ListingEmpty, ListingRefused, ListingFails, Listing, KeepCycleOnly,
           KeepButCycle
<1>1. Feed(Turn) \subseteq published
    BY DEF Feed
<1>2. CASE ListingReturns
  <2>1. cycle' = [cycle EXCEPT !.pc = IF Feed(Turn) = {} THEN "touch" ELSE "look",
                               !.entries = Feed(Turn), !.listed = Feed(Turn)]
      BY <1>2 DEF ListingReturns
  <2>2. /\ CycleOK' /\ cycle'.pc = IF Feed(Turn) = {} THEN "touch" ELSE "look"
        /\ cycle'.entries = Feed(Turn) /\ cycle'.pending = cycle.pending
      BY <2>1 DEF FeedKnown, CycleKnown, CycleOK
  <2> QED BY <1>0, <1>1, <2>2, CycleGoes DEF FeedKnown, CycleKnown, Pcs, ListingPcs
<1>3. CASE ListingEmpty
  <2>1. cycle' = [cycle EXCEPT !.pc = "touch", !.listed = {}]
      BY <1>3 DEF ListingEmpty
  <2>2. /\ CycleOK' /\ cycle'.pc = "touch"
        /\ cycle'.entries = cycle.entries /\ cycle'.pending = cycle.pending
      BY <2>1 DEF FeedKnown, CycleKnown, CycleOK
  <2> QED BY <1>0, <2>2, CycleGoes DEF FeedKnown, CycleKnown, Pcs, ListingPcs
<1>4. CASE ListingRefused
  <2>1. To("review")
      BY <1>4 DEF ListingRefused
  <2> QED BY <1>0, <2>1, GoesTo DEF Pcs, ListingPcs
<1>5. CASE ListingFails
  <2>1. Discovered
      BY <1>5 DEF ListingFails
  <2> QED BY <1>0, <2>1, StartsOver
<1> QED BY <1>2, <1>3, <1>4, <1>5

\* A row is added, and the cycle goes on with another entry, or at all.
LEMMA RowAdded ==
    ASSUME FeedKnown, NEW v \in published, v \notin DOMAIN rows,
           NEW i, rows' = WithRow(rows, v, Pending(i)), published' = published,
           CycleOK', cycle'.pc \in Pcs, cycle'.entries \subseteq published,
           cycle'.pc \in ListingPcs => cycle'.entries # {}, cycle'.pending = cycle.pending
    PROVE  FeedKnown'
<1>1. /\ DOMAIN rows' = DOMAIN rows \cup {v}
      /\ rows'[v] = [account |-> i, status |-> "pending"]
      /\ \A w \in DOMAIN rows : rows'[w] = rows[w]
    BY DEF WithRow, Pending
<1>2. VideosKnown'
    BY <1>1 DEF FeedKnown, VideosKnown, Statuses
<1>3. CycleKnown'
    BY <1>1 DEF FeedKnown, CycleKnown
<1> QED BY <1>2, <1>3 DEF FeedKnown

LEMMA EntriesKnown ==
    ASSUME FeedKnown, NEW v \in Videos, LookUp(v) \/ Insert(v)
    PROVE  FeedKnown'
<1>0. /\ cycle.pc \in ListingPcs /\ v \in cycle.entries /\ v \in published
      /\ published' = published
    BY DEF LookUp, Insert, At, Newest, ListingPcs, FeedKnown, CycleKnown, KeepCycleOnly,
           KeepButCycle, KeepButRows
<1>1. ASSUME NextEntry(v)
      PROVE  /\ CycleOK' /\ cycle'.pc \in Pcs /\ cycle'.entries \subseteq published
             /\ cycle'.pc \in ListingPcs => cycle'.entries # {}
             /\ cycle'.pending = cycle.pending
  <2>1. PICK rest \in {cycle.entries \ {v}} :
          cycle' = [cycle EXCEPT !.pc = IF rest = {} THEN "touch" ELSE "look", !.entries = rest]
      BY <1>1 DEF NextEntry
  <2>2. /\ CycleOK' /\ cycle'.pc = IF rest = {} THEN "touch" ELSE "look"
        /\ cycle'.entries = rest /\ cycle'.pending = cycle.pending
      BY <2>1 DEF FeedKnown, CycleKnown, CycleOK
  <2> QED BY <2>2 DEF FeedKnown, CycleKnown, Pcs, ListingPcs
<1>2. CASE LookUp(v)
  <2>1. rows' = rows
      BY <1>2 DEF LookUp, KeepCycleOnly, KeepButCycle
  <2>2. CASE NextEntry(v)
      BY <1>0, <1>1, <2>1, <2>2, CycleGoes DEF FeedKnown, CycleKnown
  <2>3. CASE To("insert")
      BY <1>0, <2>1, <2>3, GoesTo DEF Pcs
  <2> QED BY <1>2, <2>2, <2>3 DEF LookUp
<1>3. CASE Insert(v)
  <2>1. CASE v \in DOMAIN rows \/ AccountLeft
    <3>1. NextTurn(Tail(cycle.todo)) /\ rows' = rows
        BY <1>3, <2>1 DEF Insert, TurnEnds
    <3> QED BY <1>0, <3>1, StartsOver
  <2>2. CASE ~(v \in DOMAIN rows \/ AccountLeft)
    <3>1. rows' = WithRow(rows, v, Pending(cycle.account)) /\ NextEntry(v)
        BY <1>3, <2>2 DEF Insert
    <3> QED BY <1>0, <1>1, <2>2, <3>1, RowAdded
  <2> QED BY <2>1, <2>2
<1> QED BY <1>2, <1>3

LEMMA DownloadsKnown ==
    ASSUME FeedKnown,
           DiskFullPersisted \/ \E v \in Videos : Download(v) \/ DiskFull(v)
    PROVE  FeedKnown'
<1>1. ASSUME NEW v, NEW status \in {"done", "failed"}, Settles(v, status), published' = published
      PROVE  FeedKnown'
  <2>1. cycle' = [cycle EXCEPT !.pc = "download", !.pending = cycle.pending \ {v}]
      BY <1>1 DEF Settles
  <2>2. /\ CycleOK' /\ cycle'.pc = "download" /\ cycle'.entries = cycle.entries
        /\ cycle'.pending = cycle.pending \ {v}
      BY <2>1 DEF FeedKnown, CycleKnown, CycleOK
  <2>3. /\ DOMAIN rows' = DOMAIN rows
        /\ \A w \in DOMAIN rows :
               rows'[w] = IF w = v THEN [account |-> rows[w].account, status |-> status]
                          ELSE rows[w]
      BY <1>1 DEF Settles, FeedKnown, VideosKnown
  <2>4. VideosKnown'
      BY <1>1, <2>3 DEF FeedKnown, VideosKnown, Statuses
  <2>5. CycleKnown'
      BY <1>1, <2>2, <2>3 DEF FeedKnown, CycleKnown, Pcs, ListingPcs
  <2> QED BY <2>4, <2>5 DEF FeedKnown
<1>2. CASE DiskFullPersisted
    BY <1>1, <1>2 DEF DiskFullPersisted, KeepButRows
<1>3. CASE \E v \in Videos : Download(v)
  <2>1. PICK v \in Videos : Download(v)
      BY <1>3
  <2>2. \E status \in {"done", "failed"} : Settles(v, status)
    <3>1. PICK status \in {"done", "failed"} :
             Settles(v, IF cycle.engine = Nothing THEN "failed" ELSE status)
        BY <2>1 DEF Download
    <3> QED BY <3>1
  <2>3. published' = published
      BY <2>1 DEF Download, KeepButRows
  <2> QED BY <1>1, <2>2, <2>3
<1>4. CASE \E v \in Videos : DiskFull(v)
  <2>1. PICK v : v \in cycle.pending /\ cycle' = [cycle EXCEPT !.pc = "enospc", !.entries = {v}]
      BY <1>4 DEF DiskFull
  <2>2. /\ CycleOK' /\ cycle'.pc = "enospc" /\ cycle'.entries = {v}
        /\ cycle'.pending = cycle.pending /\ v \in published
      BY <2>1 DEF FeedKnown, VideosKnown, CycleKnown, CycleOK
  <2>3. UNCHANGED <<rows, published>>
      BY <1>4 DEF DiskFull, KeepButCycle
  <2> QED BY <2>2, <2>3, CycleGoes DEF FeedKnown, CycleKnown, Pcs, ListingPcs
<1> QED BY <1>2, <1>3, <1>4

LEMMA FeedKnownKept == FeedKnown /\ [Next]_vars => FeedKnown'
<1> SUFFICES ASSUME FeedKnown, [Next]_vars PROVE FeedKnown'
    OBVIOUS
<1>0. ASSUME UNCHANGED <<rows, published, cycle>> PROVE FeedKnown'
    BY <1>0 DEF FeedKnown, VideosKnown, CycleKnown, CycleOK
<1>1. CASE CycleSteps
    BY <1>1, GatesKnown, ListingsKnown, EntriesKnown, DownloadsKnown DEF CycleSteps
<1>2. CASE HeartbeatJob
  <2>1. UNCHANGED <<rows, published>>
      BY <1>2, JobsFrame
  <2>2. cycle' = cycle \/ cycle' = [NoCycle EXCEPT !.pc = "start"]
      BY <1>2 DEF HeartbeatJob, EnsureBegins, HeartbeatLaunches, KeepAll, monitorVars
  <2>3. CASE cycle' = [NoCycle EXCEPT !.pc = "start"]
    <3>1. CycleOK' /\ cycle'.pc = "start" /\ cycle'.entries = {} /\ cycle'.pending = {}
        BY <2>3 DEF NoCycle, CycleOK
    <3> QED BY <2>1, <3>1, CycleGoes DEF Pcs, ListingPcs
  <2> QED BY <1>0, <2>1, <2>2, <2>3
<1>3. CASE CollectJob \/ ValidateJob \/ RefreshJob
  <2>1. UNCHANGED <<rows, published>>
      BY <1>3, JobsFrame
  <2>2. cycle' = cycle
      BY <1>3 DEF CollectJob, ValidateJob, RefreshJob, EnsureBegins, CollectEnsured,
                  ValidateEnsured, RefreshBegins, PageLoads, PageFails, ProfileWritten,
                  KeepAll, OnlyCookies, KeepButRefresh, monitorVars
  <2> QED BY <1>0, <2>1, <2>2
<1>4. CASE AccountCommands
    BY <1>0, <1>4, CommandsFrame
<1>5. CASE OnlyGuards \/ OnlyCookies \/ UNCHANGED vars
    BY <1>0, <1>5 DEF OnlyGuards, OnlyCookies, KeepAll, monitorVars, vars
<1>6. CASE (\E a \in Accounts : CheckAges(a) \/ ProfileAges(a)) \/ ResumeCommand
           \/ \E on \in BOOLEAN : SetMonitor(on)
    BY <1>0, <1>6 DEF CheckAges, ProfileAges, KeepButRefresh, ResumeCommand, SetMonitor
<1>7. CASE World /\ ~OnlyGuards /\ ~OnlyCookies
  <2>1. CASE \E v \in Videos : DiskFull(v)
      BY <2>1, DownloadsKnown
  <2>2. CASE \E v \in Videos : OtherInserts(v)
    <3>1. PICK v, i : /\ v \in published /\ v \notin DOMAIN rows
                      /\ rows' = WithRow(rows, v, Pending(i))
        BY <2>2 DEF OtherInserts
    <3>2. UNCHANGED <<published, cycle>>
        BY <2>2 DEF OtherInserts
    <3>3. CycleOK'
        BY <3>2 DEF FeedKnown, CycleKnown, CycleOK
    <3> QED BY <3>1, <3>2, <3>3, RowAdded DEF FeedKnown, CycleKnown
  <2>3. CASE \E v \in Videos : Publish(v)
    <3>1. UNCHANGED <<rows, cycle>> /\ published \subseteq published' /\ published' \subseteq Videos
        BY <2>3 DEF Publish, FeedKnown, VideosKnown
    <3> QED BY <3>1 DEF FeedKnown, VideosKnown, CycleKnown, CycleOK
  <2> QED BY <1>7, <2>1, <2>2, <2>3 DEF World
<1> QED BY <1>1, <1>2, <1>3, <1>4, <1>5, <1>6, <1>7 DEF Next

-----------------------------------------------------------------------------
(* The store.                                                              *)

StoreTyped ==
    /\ imported \subseteq Files /\ expired \subseteq imported
    /\ \A i \in DOMAIN stored :
           /\ i \in 1..Cardinality(imported)
           /\ stored[i] \in [file : imported, state : States]
    /\ recent \in Seq(DOMAIN stored) /\ IsInjective(recent)

LEMMA StoreTypedInitially == Init => StoreTyped
<1> SUFFICES ASSUME Init PROVE StoreTyped
    OBVIOUS
<1>1. recent = <<>> /\ expired = {}
    BY DEF Init, CookiesInit
<1>2. recent \in Seq(DOMAIN stored) /\ IsInjective(recent)
    BY <1>1 DEF IsInjective
<1>3. CASE stored = <<>> /\ imported = {}
    BY <1>1, <1>2, <1>3 DEF StoreTyped
<1>4. ASSUME NEW f \in Files, imported = {f},
             stored = <<[file |-> f, state |-> "inconclusive"]>>
      PROVE  StoreTyped
  <2>1. Cardinality(imported) = 1
      BY <1>4, FS_Singleton
  <2>2. DOMAIN stored = {1} /\ stored[1] = [file |-> f, state |-> "inconclusive"]
      BY <1>4
  <2>3. 1 \in 1..Cardinality(imported)
      BY <2>1
  <2> QED BY <1>1, <1>2, <1>4, <2>2, <2>3 DEF StoreTyped, States
<1> QED BY <1>3, <1>4 DEF Init, CookiesInit

\* Where a row stands among those validated.
LEMMA PositionTyped ==
    ASSUME StoreTyped
    PROVE  \A i : /\ Position(i) \in Nat
                  /\ i \in ToSet(recent) => /\ Position(i) \in 1..Len(recent)
                                            /\ recent[Position(i)] = i
<1> SUFFICES ASSUME NEW i
             PROVE  /\ Position(i) \in Nat
                    /\ i \in ToSet(recent) => /\ Position(i) \in 1..Len(recent)
                                              /\ recent[Position(i)] = i
    OBVIOUS
<1>1. recent \in Seq(DOMAIN stored) /\ Len(recent) \in Nat /\ DOMAIN recent = 1..Len(recent)
    BY DEF StoreTyped
<1>2. CASE i \in ToSet(recent)
  <2>1. \E k \in DOMAIN recent : recent[k] = i
      BY <1>2 DEF ToSet
  <2>2. Position(i) \in DOMAIN recent /\ recent[Position(i)] = i
      BY <1>2, <2>1 DEF Position
  <2> QED BY <1>1, <2>2
<1>3. CASE i \notin ToSet(recent)
    BY <1>1, <1>3 DEF Position
<1> QED BY <1>2, <1>3

\* A sequence without its k-th element: what is ahead of it, and what follows.
Ahead(s, k) == SubSeq(s, 1, k - 1)
Following(s, k) == SubSeq(s, k + 1, Len(s))

LEMMA HeadPart ==
    ASSUME NEW S, NEW s \in Seq(S), NEW k \in 1..Len(s)
    PROVE  /\ Ahead(s, k) \in Seq(S) /\ Len(Ahead(s, k)) = k - 1
           /\ \A n \in 1..(k - 1) : Ahead(s, k)[n] = s[n]
<1>1. Len(s) \in Nat /\ k \in Nat /\ k - 1 \in Int /\ 1 \in Int
    OBVIOUS
<1>2. \A n \in 1..(k - 1) : s[n] \in S
    OBVIOUS
<1>3. PICK m \in Int : m = k - 1
    BY <1>1
<1>4. PICK u : u = SubSeq(s, 1, m)
    OBVIOUS
<1>5. /\ u \in Seq(S) /\ Len(u) = IF 1 <= m THEN m - 1 + 1 ELSE 0
      /\ \A n \in 1..m - 1 + 1 : u[n] = s[1 + n - 1]
  <2>1. 1 \in Int /\ \A n \in 1..m : s[n] \in S
      BY <1>2, <1>3
  <2>2. /\ SubSeq(s, 1, m) \in Seq(S) /\ Len(SubSeq(s, 1, m)) = IF 1 <= m THEN m - 1 + 1 ELSE 0
        /\ \A n \in 1..m - 1 + 1 : SubSeq(s, 1, m)[n] = s[1 + n - 1]
      BY <2>1, SubSeqProperties
  <2> QED BY <1>4, <2>2, Zenon
<1>6. Len(u) = m
    BY <1>1, <1>3, <1>5
<1>7. \A n \in 1..m : u[n] = s[n]
  <2>1. \A n \in 1..m : n \in 1..m - 1 + 1 /\ 1 + n - 1 = n
      BY <1>3
  <2> QED BY <1>5, <2>1, Zenon
<1> QED BY <1>3, <1>4, <1>5, <1>6, <1>7, Zenon DEF Ahead

LEMMA TailPart ==
    ASSUME NEW S, NEW s \in Seq(S), NEW k \in 1..Len(s)
    PROVE  /\ Following(s, k) \in Seq(S) /\ Len(Following(s, k)) = Len(s) - k
           /\ \A n \in 1..(Len(s) - k) : Following(s, k)[n] = s[n + k]
<1>1. PICK len \in Nat : len = Len(s)
    OBVIOUS
<1>2. \A n \in (k + 1)..len : s[n] \in S
    BY <1>1
<1>3. PICK m \in Int : m = k + 1
    BY <1>1
<1>4. PICK u : u = SubSeq(s, m, len)
    OBVIOUS
<1>5. /\ u \in Seq(S) /\ Len(u) = IF m <= len THEN len - m + 1 ELSE 0
      /\ \A n \in 1..len - m + 1 : u[n] = s[m + n - 1]
  <2>1. len \in Int /\ \A n \in m..len : s[n] \in S
      BY <1>2, <1>3
  <2>2. /\ SubSeq(s, m, len) \in Seq(S)
        /\ Len(SubSeq(s, m, len)) = IF m <= len THEN len - m + 1 ELSE 0
        /\ \A n \in 1..len - m + 1 : SubSeq(s, m, len)[n] = s[m + n - 1]
      BY <2>1, SubSeqProperties
  <2> QED BY <1>4, <2>2, Zenon
<1>6. Len(u) = len - k
    BY <1>1, <1>3, <1>5
<1>7. \A n \in 1..(len - k) : u[n] = s[n + k]
  <2>1. \A n \in 1..(len - k) : n \in 1..len - m + 1 /\ m + n - 1 = n + k
      BY <1>1, <1>3
  <2> QED BY <1>5, <2>1, Zenon
<1> QED BY <1>1, <1>3, <1>4, <1>5, <1>6, <1>7, Zenon DEF Following

LEMMA RemovedAt ==
    ASSUME NEW S, NEW s \in Seq(S), NEW k \in 1..Len(s)
    PROVE  /\ RemoveAt(s, k) \in Seq(S) /\ Len(RemoveAt(s, k)) = Len(s) - 1
           /\ \A n \in 1..(Len(s) - 1) : RemoveAt(s, k)[n] = IF n < k THEN s[n] ELSE s[n + 1]
<1>1. PICK u \in Seq(S), v \in Seq(S) :
         /\ RemoveAt(s, k) = u \o v /\ Len(u) = k - 1 /\ Len(v) = Len(s) - k
         /\ \A n \in 1..(k - 1) : u[n] = s[n]
         /\ \A n \in 1..(Len(s) - k) : v[n] = s[n + k]
  <2>1. RemoveAt(s, k) = Ahead(s, k) \o Following(s, k)
      BY Zenon DEF RemoveAt, Ahead, Following
  <2>2. /\ Following(s, k) \in Seq(S) /\ Len(Following(s, k)) = Len(s) - k
        /\ \A n \in 1..(Len(s) - k) : Following(s, k)[n] = s[n + k]
      BY TailPart
  <2> QED BY <2>1, <2>2, HeadPart, Zenon
<1>2. PICK len \in Nat : len = Len(s)
    OBVIOUS
<1>3. PICK w : w = u \o v
    OBVIOUS
<1>4. /\ w \in Seq(S) /\ Len(w) = Len(u) + Len(v)
      /\ \A n \in 1..Len(u) + Len(v) : w[n] = IF n <= Len(u) THEN u[n] ELSE v[n - Len(u)]
    BY <1>3, ConcatProperties, Zenon
<1>5. k \in 1..len /\ k - 1 + (len - k) = len - 1
    BY <1>2
<1>6. /\ Len(w) = len - 1
      /\ \A n \in 1..(len - 1) : w[n] = IF n <= k - 1 THEN u[n] ELSE v[n - (k - 1)]
    BY <1>1, <1>2, <1>4, <1>5, Zenon
<1>7. ASSUME NEW n \in 1..(len - 1) PROVE w[n] = IF n < k THEN s[n] ELSE s[n + 1]
  <2>1. CASE n < k
    <3>1. n \in 1..(k - 1) /\ n <= k - 1
        BY <1>2, <2>1
    <3> QED BY <1>1, <1>6, <2>1, <3>1, Zenon
  <2>2. CASE ~(n < k)
    <3>1. /\ ~(n <= k - 1) /\ n - (k - 1) \in 1..(len - k)
          /\ n - (k - 1) + k = n + 1
        BY <1>2, <2>2
    <3>2. v[n - (k - 1)] = s[n + 1]
        BY <1>1, <1>2, <3>1, Zenon
    <3> QED BY <1>6, <2>2, <3>1, <3>2, Zenon
  <2> QED BY <2>1, <2>2
<1> QED BY <1>1, <1>2, <1>3, <1>4, <1>6, <1>7, Zenon

\* A row that is forgotten is not among them any more, and the others are.
LEMMA ForgottenLacks ==
    ASSUME StoreTyped, NEW i
    PROVE  Forgotten(i) \in Seq(DOMAIN stored \ {i}) /\ IsInjective(Forgotten(i))
<1>1. recent \in Seq(DOMAIN stored) /\ Len(recent) \in Nat /\ DOMAIN recent = 1..Len(recent)
    BY DEF StoreTyped
<1>2. \A m, n \in 1..Len(recent) : recent[m] = recent[n] => m = n
    BY <1>1 DEF StoreTyped, IsInjective
<1>3. CASE i \notin ToSet(recent)
  <2>1. Forgotten(i) = recent /\ \A n \in 1..Len(recent) : recent[n] \in DOMAIN stored \ {i}
      BY <1>1, <1>3 DEF Forgotten, ToSet
  <2> QED BY <1>1, <2>1 DEF StoreTyped
<1>4. CASE i \in ToSet(recent)
  <2>1. PICK k \in 1..Len(recent) : recent[k] = i /\ Forgotten(i) = RemoveAt(recent, k)
      BY <1>4, PositionTyped DEF Forgotten
  <2>2. PICK len \in Nat : len = Len(recent)
      BY <1>1
  <2>3. PICK w : w = Forgotten(i)
      OBVIOUS
  <2>4. /\ w \in Seq(DOMAIN stored) /\ Len(w) = len - 1
        /\ \A n \in 1..(len - 1) : w[n] = IF n < k THEN recent[n] ELSE recent[n + 1]
    <3>1. recent \in Seq(DOMAIN stored) /\ w = RemoveAt(recent, k)
        BY <1>1, <2>1, <2>3, Zenon
    <3>2. /\ w \in Seq(DOMAIN stored) /\ Len(w) = Len(recent) - 1
          /\ \A n \in 1..(Len(recent) - 1) : w[n] = IF n < k THEN recent[n] ELSE recent[n + 1]
        BY <3>1, RemovedAt, Zenon
    <3> QED BY <2>2, <3>2, Zenon
  <2>5. \A m, n \in 1..len : recent[m] = recent[n] => m = n
      BY <1>2, <2>2
  <2>6. \A n \in 1..(len - 1) : w[n] # i
    <3> SUFFICES ASSUME NEW n \in 1..(len - 1) PROVE w[n] # i
        OBVIOUS
    <3>1. k \in 1..len /\ n \in 1..len /\ n + 1 \in 1..len
        BY <2>2
    <3>2. n < k => n # k
        BY <3>1
    <3>3. ~(n < k) => n + 1 # k
        BY <3>1
    <3> QED BY <2>1, <2>4, <2>5, <3>1, <3>2, <3>3, Zenon
  <2>7. \A m, n \in 1..(len - 1) : w[m] = w[n] => m = n
    <3> SUFFICES ASSUME NEW m \in 1..(len - 1), NEW n \in 1..(len - 1), w[m] = w[n] PROVE m = n
        OBVIOUS
    <3>1. PICK f \in [1..(len - 1) -> 1..len] :
             \A j \in 1..(len - 1) : f[j] = IF j < k THEN j ELSE j + 1
      <4>1. \A j \in 1..(len - 1) : (IF j < k THEN j ELSE j + 1) \in 1..len
          BY <2>2
      <4>2. [j \in 1..(len - 1) |-> IF j < k THEN j ELSE j + 1] \in [1..(len - 1) -> 1..len]
          BY <4>1
      <4> QED BY <4>2
    <3>2. \A j \in 1..(len - 1) : w[j] = recent[f[j]] /\ f[j] \in 1..len
        BY <2>4, <3>1, Zenon
    <3>3. f[m] = f[n]
      <4>1. w[m] = recent[f[m]] /\ w[n] = recent[f[n]]
          BY <3>2, Zenon
      <4>2. f[m] \in 1..len /\ f[n] \in 1..len
          BY <3>2, Zenon
      <4>3. recent[f[m]] = recent[f[n]]
          BY <4>1, Zenon
      <4> QED BY <2>5, <4>2, <4>3, Zenon
    <3> QED BY <2>2, <3>1, <3>3
  <2>8. DOMAIN w = 1..(len - 1)
      BY <2>2, <2>4
  <2>9. IsInjective(w)
      BY <2>7, <2>8 DEF IsInjective
  <2>10. \A n \in 1..Len(w) : w[n] \in DOMAIN stored \ {i}
    <3>1. \A n \in 1..Len(w) : w[n] \in DOMAIN stored
        BY <2>4
    <3> QED BY <2>4, <2>6, <3>1, Zenon
  <2>11. w \in Seq(DOMAIN stored \ {i})
      BY <2>4, <2>10
  <2> QED BY <2>3, <2>9, <2>11
<1> QED BY <1>3, <1>4

\* The row that was validated just now comes first.
LEMMA LastComesFirst ==
    ASSUME NEW S, NEW i \in S, NEW s \in Seq(S \ {i}), IsInjective(s)
    PROVE  <<i>> \o s \in Seq(S) /\ IsInjective(<<i>> \o s)
<1>1. s \in Seq(S) /\ <<i>> \in Seq(S) /\ Len(s) \in Nat /\ DOMAIN s = 1..Len(s)
    OBVIOUS
<1>2. <<i>> \o s \in Seq(S) /\ DOMAIN (<<i>> \o s) = 1..(Len(s) + 1)
    BY <1>1
<1>3. \A n \in 1..(Len(s) + 1) : (<<i>> \o s)[n] = IF n = 1 THEN i ELSE s[n - 1]
    BY <1>1
<1>4. \A n \in 1..Len(s) : s[n] # i
    OBVIOUS
<1>5. \A m, n \in 1..Len(s) : s[m] = s[n] => m = n
    BY <1>1 DEF IsInjective
<1>6. \A m, n \in 1..(Len(s) + 1) : (<<i>> \o s)[m] = (<<i>> \o s)[n] => m = n
    BY <1>1, <1>3, <1>4, <1>5
<1> QED BY <1>2, <1>6 DEF IsInjective

-----------------------------------------------------------------------------
(* The validations.                                                        *)

RunTyped(r) ==
    /\ r = [pc |-> r.pc, todo |-> r.todo, file |-> r.file, verdict |-> r.verdict]
    /\ r.pc \in {"idle", "list", "read", "probe", "write"}
    /\ r.pc \in {"read", "probe", "write"} <=> r.todo # <<>>
    /\ r.pc = "write" <=> r.verdict # "none"
    /\ r.verdict \in {"none", "valid", "invalid"}
    /\ r.pc \in {"probe", "write"} => Head(r.todo) \in Ids /\ r.file \in Files

RunsTyped == val = [v \in Validators |-> val[v]] /\ \A v \in Validators : RunTyped(val[v])

LEMMA RunsTypedInitially == Init => RunsTyped
BY DEF Init, CookiesInit, RunsTyped, RunTyped, Idle

LEMMA RunReplaced ==
    ASSUME RunsTyped, NEW v \in Validators, NEW r, val' = [val EXCEPT ![v] = r], RunTyped(r)
    PROVE  RunsTyped' /\ val'[v] = r /\ \A w \in Validators \ {v} : val'[w] = val[w]
<1>1. \A w \in Validators : val'[w] = IF w = v THEN r ELSE val[w]
    BY DEF RunsTyped
<1>2. val' = [w \in Validators |-> val'[w]]
    BY DEF RunsTyped
<1>3. \A w \in Validators : RunTyped(val'[w])
    BY <1>1 DEF RunsTyped
<1> QED BY <1>1, <1>2, <1>3 DEF RunsTyped, RunTyped

LEMMA IdleTyped == RunTyped(Idle)
BY DEF RunTyped, Idle

LEMMA ReadingTyped ==
    ASSUME NEW todo, todo # <<>>
    PROVE  RunTyped(Reading(todo))
BY DEF RunTyped, Reading

\* The next row of a validation, or its end.
LEMMA DoneTyped ==
    ASSUME RunsTyped, NEW v \in Validators, Done(v)
    PROVE  RunsTyped' /\ \A w \in Validators \ {v} : val'[w] = val[w]
<1>1. PICK r : r = IF Tail(val[v].todo) = <<>> THEN Idle ELSE Reading(Tail(val[v].todo))
    OBVIOUS
<1>2. RunTyped(r)
    BY <1>1, IdleTyped, ReadingTyped, Zenon
<1>3. val' = [val EXCEPT ![v] = r]
    BY <1>1, Zenon DEF Done
<1> QED BY <1>2, <1>3, RunReplaced, Zenon

LEMMA JudgesTyped ==
    ASSUME RunsTyped, NEW v \in Validators, NEW verdict \in {"valid", "invalid"},
           Judges(v, verdict), val[v].pc = "probe"
    PROVE  RunsTyped' /\ \A w \in Validators \ {v} : val'[w] = val[w]
<1>1. PICK r : r = [pc |-> "write", todo |-> val[v].todo, file |-> val[v].file,
                    verdict |-> verdict]
    OBVIOUS
<1>2. RunTyped(r)
    BY <1>1 DEF RunsTyped, RunTyped
<1>3. val' = [val EXCEPT ![v] = r]
    BY <1>1 DEF Judges, RunsTyped
<1> QED BY <1>2, <1>3, RunReplaced, Zenon

\* The usable rows, in the order of their ids, are some if there are any.
LEMMA InOrderSome ==
    ASSUME NEW ids, IsFiniteSet(ids), ids # {}
    PROVE  InOrder(ids) # <<>>
<1>1. Cardinality(ids) \in Nat /\ Cardinality(ids) # 0
    BY FS_CardinalityType, FS_EmptySet
<1>2. 1 \in DOMAIN InOrder(ids)
    BY <1>1 DEF InOrder
<1> QED BY <1>2

LEMMA RunsTypedBySteps ==
    ASSUME RunsTyped, StoreTyped, DOMAIN stored \subseteq Ids,
           NEW v \in Validators, ReadBlob(v) \/ Probe(v) \/ WriteVerdict(v)
    PROVE  RunsTyped' /\ \A w \in Validators \ {v} : val'[w] = val[w]
<1>1. CASE Aborts(v)
    BY <1>1, IdleTyped, RunReplaced DEF Aborts
<1>2. CASE Done(v)
    BY <1>2, DoneTyped
<1>3. CASE ReadBlob(v) /\ ~Aborts(v)
  <2>1. PICK i, f : i = Head(val[v].todo) /\ f = stored[i].file
      OBVIOUS
  <2>2. i \in DOMAIN stored /\ val[v].pc = "read"
      BY <1>3, <2>1 DEF ReadBlob
  <2>3. i \in Ids /\ f \in Files
      BY <2>1, <2>2 DEF StoreTyped
  <2>4. PICK r : r = [pc |-> "probe", todo |-> val[v].todo, file |-> f, verdict |-> "none"]
      OBVIOUS
  <2>5. val' = [val EXCEPT ![v] = r]
      BY <1>3, <2>1, <2>2, <2>4 DEF ReadBlob, RunsTyped
  <2>6. RunTyped(r)
    <3>1. val[v].todo # <<>>
        BY <2>2 DEF RunsTyped, RunTyped
    <3> QED BY <2>1, <2>3, <2>4, <3>1 DEF RunTyped
  <2> QED BY <2>5, <2>6, RunReplaced
<1>4. CASE Probe(v)
  <2>1. val[v].pc = "probe" /\ (Done(v) \/ \E verdict \in {"valid", "invalid"} : Judges(v, verdict))
      BY <1>4 DEF Probe
  <2> QED BY <1>2, <2>1, JudgesTyped
<1>5. CASE WriteVerdict(v)
    BY <1>1, <1>2, <1>5 DEF WriteVerdict
<1> QED BY <1>1, <1>3, <1>4, <1>5

LEMMA RunsTypedKept ==
    ASSUME RunsTyped, [Next]_vars, StoreTyped, Cardinality(imported) \in Nat,
           DOMAIN stored \subseteq Ids,
           held["validate"] # NotReading => val["validate"].pc = "idle"
    PROVE  RunsTyped'
<1>0. ASSUME UNCHANGED val PROVE RunsTyped'
    BY <1>0 DEF RunsTyped
<1>1. ASSUME NEW v \in Validators, ReadBlob(v) \/ Probe(v) \/ WriteVerdict(v)
      PROVE  RunsTyped'
    BY <1>1, RunsTypedBySteps
<1>2. CASE CookieCommands
  <2>1. ASSUME NEW i \in Ids, TestCookie(i) PROVE RunsTyped'
    <3>1. val' = [val EXCEPT !["test"] = Reading(<<i>>)] /\ "test" \in Validators
        BY <2>1 DEF TestCookie, Validators
    <3>2. <<i>> # <<>>
        OBVIOUS
    <3> QED BY <3>1, <3>2, ReadingTyped, RunReplaced
  <2>2. ASSUME \/ \E f \in Files : AddCookie(f)
               \/ \E i \in Ids : RemoveCookie(i)
        PROVE  RunsTyped'
      BY <1>0, <2>2 DEF AddCookie, RemoveCookie, KeepUses
  <2> QED BY <1>1, <1>2, <2>1, <2>2 DEF CookieCommands, Validators
<1>3. CASE ValidateJob
  <2>1. CASE EnsureBegins("validate")
      BY <1>0, <2>1 DEF EnsureBegins, EnsureReads
  <2>2. CASE ValidateEnsured
    <3>1. UNCHANGED val \/ Goes("validate", "list")
        BY <2>2 DEF ValidateEnsured
    <3>2. CASE Goes("validate", "list")
      <4>1. val["validate"].pc = "idle" /\ "validate" \in Validators
          BY <2>2 DEF ValidateEnsured, EngineApply, Validators
      <4>2. PICK r : r = [val["validate"] EXCEPT !.pc = "list"]
          OBVIOUS
      <4>3. RunTyped(r)
          BY <4>1, <4>2 DEF RunsTyped, RunTyped
      <4>4. val' = [val EXCEPT !["validate"] = r]
          BY <3>2, <4>1, <4>2 DEF Goes, RunsTyped
      <4> QED BY <4>1, <4>3, <4>4, RunReplaced
    <3> QED BY <1>0, <3>1, <3>2
  <2>3. CASE BatchReads
    <3>1. PICK r : r = IF Usable = {} THEN Idle ELSE Reading(InOrder(Usable))
        OBVIOUS
    <3>2. val' = [val EXCEPT !["validate"] = r] /\ "validate" \in Validators
        BY <2>3, <3>1, Zenon DEF BatchReads, Validators
    <3>3. IsFiniteSet(Usable)
      <4>1. Usable \in SUBSET (1..Cardinality(imported))
          BY DEF Usable, StoreTyped
      <4>2. 1 \in Int /\ Cardinality(imported) \in Int
          OBVIOUS
      <4> QED BY <4>1, <4>2, FS_Interval, FS_Subset, Zenon
    <3>4. RunTyped(r)
        BY <3>1, <3>3, IdleTyped, ReadingTyped, InOrderSome, Zenon
    <3> QED BY <3>2, <3>4, RunReplaced
  <2> QED BY <1>1, <1>3, <2>1, <2>2, <2>3 DEF ValidateJob, Validators
<1>4. CASE ~CookieCommands /\ ~ValidateJob
    BY <1>0, <1>4, VerdictAside DEF verdictVars
<1> QED BY <1>2, <1>3, <1>4

-----------------------------------------------------------------------------
(* The store, as it changes.                                               *)

LEMMA CookiesAside ==
    ASSUME [Next]_vars, ~CookieCommands, ~ValidateJob
    PROVE  /\ UNCHANGED <<stored, recent, imported>>
           /\ UNCHANGED expired \/ \E f \in Files : Expire(f)
           /\ probes' \in {probes, FALSE}
<1> USE DEF cookieVars, KeepStore
<1>1. CASE HeartbeatJob \/ CollectJob \/ RefreshJob
    BY <1>1 DEF HeartbeatJob, CollectJob, RefreshJob, EnsureBegins, EnsureReads,
                HeartbeatLaunches, CollectEnsured, RefreshBegins, PageLoads, PageFails,
                ProfileWritten, KeepButEngine, KeepButRefresh
<1>2. CASE CycleSteps
    BY <1>2, CycleFrame
<1>3. CASE AccountCommands
    BY <1>3, CommandsFrame
<1>4. CASE (DiskJob \/ NetworkJob) /\ OnlyGuards
    BY <1>4 DEF OnlyGuards
<1>5. CASE \E a \in Accounts : CheckAges(a) \/ ProfileAges(a)
    BY <1>5 DEF CheckAges, ProfileAges, KeepButRefresh
<1>6. CASE ResumeCommand \/ \E on \in BOOLEAN : SetMonitor(on)
    BY <1>6 DEF ResumeCommand, SetMonitor
<1>7. CASE World
    BY <1>7 DEF World, Expire, ProbesGo, OnlyGuards, Publish, OtherInserts, DiskFull
<1>8. CASE UNCHANGED vars
    BY <1>8 DEF vars
<1> QED BY <1>1, <1>2, <1>3, <1>4, <1>5, <1>6, <1>7, <1>8 DEF Next

LEMMA AddedTyped ==
    ASSUME StoreTyped, IsFiniteSet(imported), NEW f \in Files, AddCookie(f)
    PROVE  StoreTyped'
<1>1. Cardinality(imported) \in Nat /\ Cardinality(imported') = Cardinality(imported) + 1
  <2>1. imported' = imported \cup {f} /\ f \notin imported
      BY DEF AddCookie
  <2> QED BY <2>1, FS_CardinalityType, FS_AddElement
<1>2. PICK i \in 1..(Cardinality(imported) + 1) : i = NextId(stored)
  <2>1. DOMAIN stored \subseteq 1..Cardinality(imported)
      BY DEF StoreTyped
  <2> QED BY <1>1, <2>1, NextIdNext
<1>3. /\ DOMAIN stored' = DOMAIN stored \cup {i}
      /\ \A k \in DOMAIN stored \ {i} : stored'[k] = stored[k]
      /\ stored'[i] = [file |-> f, state |-> "inconclusive"]
    BY <1>2 DEF AddCookie, WithRow
<1>4. imported' = imported \cup {f} /\ expired' = expired /\ recent' = recent
    BY DEF AddCookie
<1>5. \A k \in DOMAIN stored' : /\ k \in 1..Cardinality(imported')
                                /\ stored'[k] \in [file : imported', state : States]
  <2>1. stored'[i] \in [file : imported', state : States] /\ i \in 1..Cardinality(imported')
      BY <1>1, <1>2, <1>3, <1>4 DEF States
  <2>2. \A k \in DOMAIN stored : /\ k \in 1..Cardinality(imported')
                                 /\ stored[k] \in [file : imported', state : States]
      BY <1>1, <1>4 DEF StoreTyped
  <2> QED BY <1>3, <2>1, <2>2
<1>6. recent' \in Seq(DOMAIN stored') /\ IsInjective(recent')
  <2>1. recent \in Seq(DOMAIN stored) /\ IsInjective(recent)
      BY DEF StoreTyped
  <2>2. recent \in Seq(DOMAIN stored \cup {i})
      BY <2>1
  <2> QED BY <1>3, <1>4, <2>1, <2>2
<1>7. imported' \subseteq Files /\ expired' \subseteq imported'
    BY <1>4 DEF StoreTyped
<1> QED BY <1>5, <1>6, <1>7 DEF StoreTyped

LEMMA RemovedTyped ==
    ASSUME StoreTyped, NEW i \in Ids, RemoveCookie(i)
    PROVE  StoreTyped'
<1>1. /\ DOMAIN stored' = DOMAIN stored \ {i}
      /\ \A k \in DOMAIN stored' : stored'[k] = stored[k]
      /\ recent' = Forgotten(i) /\ UNCHANGED <<imported, expired>>
    BY DEF RemoveCookie
<1>2. recent' \in Seq(DOMAIN stored') /\ IsInjective(recent')
    BY <1>1, ForgottenLacks
<1> QED BY <1>1, <1>2 DEF StoreTyped

LEMMA VerdictTyped ==
    ASSUME StoreTyped, RunsTyped, NEW v \in Validators, WriteVerdict(v)
    PROVE  StoreTyped'
<1>1. PICK i : i = Head(val[v].todo)
    OBVIOUS
<1>2. UNCHANGED <<imported, expired>>
    BY DEF WriteVerdict
<1>3. CASE i \notin DOMAIN stored
    BY <1>1, <1>2, <1>3 DEF WriteVerdict, StoreTyped
<1>4. CASE i \in DOMAIN stored
  <2>1. val[v].verdict \in States
      BY DEF WriteVerdict, RunsTyped, RunTyped, States
  <2>2. /\ stored' = [stored EXCEPT ![i].state = val[v].verdict]
        /\ recent' = <<i>> \o Forgotten(i)
      BY <1>1, <1>4 DEF WriteVerdict
  <2>3. /\ DOMAIN stored' = DOMAIN stored
        /\ \A k \in DOMAIN stored : stored'[k] \in [file : imported, state : States]
      BY <2>1, <2>2 DEF StoreTyped
  <2>4. recent' \in Seq(DOMAIN stored) /\ IsInjective(recent')
      BY <1>4, <2>2, ForgottenLacks, LastComesFirst
  <2> QED BY <1>2, <2>3, <2>4 DEF StoreTyped
<1> QED BY <1>3, <1>4

LEMMA StoreTypedKept ==
    ASSUME StoreTyped, RunsTyped, IsFiniteSet(imported), [Next]_vars
    PROVE  StoreTyped'
<1>0. ASSUME UNCHANGED <<stored, recent, imported, expired>> PROVE StoreTyped'
    BY <1>0 DEF StoreTyped
<1>1. ASSUME NEW v \in Validators, ReadBlob(v) \/ Probe(v) PROVE StoreTyped'
    BY <1>0, <1>1 DEF ReadBlob, Probe, KeepButVal, KeepStore
<1>2. CASE CookieCommands
  <2>1. ASSUME NEW i \in Ids, TestCookie(i) PROVE StoreTyped'
      BY <1>0, <2>1 DEF TestCookie, KeepButVal, KeepStore
  <2> QED BY <1>1, <1>2, <2>1, AddedTyped, RemovedTyped, VerdictTyped DEF CookieCommands, Validators
<1>3. CASE ValidateJob
  <2>1. CASE EnsureBegins("validate") \/ ValidateEnsured \/ BatchReads
      BY <1>0, <2>1 DEF EnsureBegins, EnsureReads, ValidateEnsured, BatchReads, KeepButEngine,
                        KeepButVal, KeepStore
  <2> QED BY <1>1, <1>3, <2>1, VerdictTyped DEF ValidateJob, Validators
<1>4. CASE ~CookieCommands /\ ~ValidateJob
  <2>1. CASE UNCHANGED expired
      BY <1>0, <1>4, <2>1, CookiesAside
  <2>2. CASE \E f \in Files : Expire(f)
    <3>1. expired' \subseteq imported
        BY <2>2 DEF Expire, StoreTyped
    <3> QED BY <1>4, <3>1, CookiesAside DEF StoreTyped
  <2> QED BY <1>4, <2>1, <2>2, CookiesAside
<1> QED BY <1>2, <1>3, <1>4

-----------------------------------------------------------------------------
(* The working cookie, and the engine.                                     *)

\* Of usable rows of one state, one comes before all others.
LEMMA FirstOfAll ==
    ASSUME StoreTyped, NEW T \in SUBSET Usable, T # {},
           \A i, j \in T : stored[i].state = stored[j].state
    PROVE  \E i \in T : \A j \in T \ {i} : Before(i, j)
<1>1. \A i \in T : i \in Nat /\ Position(i) \in Nat
    BY PositionTyped DEF Usable, StoreTyped
<1>2. PICK P \in SUBSET Nat : \A p \in Nat : p \in P <=> \E i \in T : p = Position(i)
  <2>1. {p \in Nat : \E i \in T : p = Position(i)} \in SUBSET Nat
      OBVIOUS
  <2> QED BY <2>1
<1>3. PICK p \in P : \A q \in P : p <= q
  <2>1. \A i \in T : Position(i) \in P
      BY <1>1, <1>2
  <2> QED BY <2>1, LeastElement
<1>4. PICK U \in SUBSET T : \A i \in T : i \in U <=> Position(i) = p
  <2>1. {i \in T : Position(i) = p} \in SUBSET T
      OBVIOUS
  <2> QED BY <2>1
<1>5. PICK i \in U : \A j \in U : i <= j
  <2>1. U # {} /\ U \in SUBSET Nat
      BY <1>1, <1>2, <1>3, <1>4
  <2> QED BY <2>1, LeastElement
<1>6. ASSUME NEW j \in T \ {i} PROVE Before(i, j)
  <2>1. Position(i) = p /\ Position(j) \in P
      BY <1>1, <1>2, <1>4, <1>5
  <2>2. Position(i) <= Position(j) /\ (Position(i) = Position(j) => j \in U)
      BY <1>3, <1>4, <2>1
  <2>3. Position(i) < Position(j) \/ (Position(i) = Position(j) /\ i < j)
      BY <1>1, <1>5, <2>2
  <2>4. stored[i].state = stored[j].state
      BY <1>5, <1>6
  <2> QED BY <2>3, <2>4 DEF Before
<1> QED BY <1>5, <1>6

\* If there is a usable cookie, one of them is the best ...
LEMMA BestExists ==
    ASSUME StoreTyped, Usable # {}
    PROVE  \E i \in Usable : \A j \in Usable \ {i} : Before(i, j)
<1>1. \A i \in Usable : stored[i].state \in {"valid", "inconclusive"}
    BY DEF Usable, StoreTyped, States
<1>2. CASE \A i \in Usable : stored[i].state # "valid"
    BY <1>1, <1>2, FirstOfAll
<1>3. CASE \E i \in Usable : stored[i].state = "valid"
  <2>1. PICK T \in SUBSET Usable : \A i \in Usable : i \in T <=> stored[i].state = "valid"
    <3>1. {i \in Usable : stored[i].state = "valid"} \in SUBSET Usable
        OBVIOUS
    <3> QED BY <3>1
  <2>2. PICK i \in T : \A j \in T \ {i} : Before(i, j)
      BY <1>3, <2>1, FirstOfAll
  <2>3. \A j \in Usable : j \notin T => Before(i, j)
      BY <2>1, <2>2 DEF Before
  <2> QED BY <2>2, <2>3
<1> QED BY <1>2, <1>3

\* ... and it is the working cookie.
BestCookie ==
    IF Usable = {} THEN Working = Nothing
    ELSE \E i \in Usable : /\ Working = [id |-> i, file |-> stored[i].file]
                           /\ \A j \in Usable \ {i} : Before(i, j)

LEMMA WorkingIsBest == ASSUME StoreTyped PROVE BestCookie
<1>1. CASE Usable = {}
    BY <1>1 DEF BestCookie, Working
<1>2. CASE Usable # {}
  <2>1. PICK i : i = CHOOSE k \in Usable : \A j \in Usable \ {k} : Before(k, j)
      OBVIOUS
  <2>2. i \in Usable /\ \A j \in Usable \ {i} : Before(i, j)
      BY <1>2, <2>1, BestExists, Zenon
  <2>3. Working = [id |-> i, file |-> stored[i].file]
      BY <1>2, <2>1, Zenon DEF Working
  <2> QED BY <1>2, <2>2, <2>3 DEF BestCookie
<1> QED BY <1>1, <1>2

LEMMA WorkingTyped ==
    ASSUME StoreTyped, DOMAIN stored \subseteq Ids
    PROVE  Working \in Cookie
<1>1. CASE Working = Nothing
    BY <1>1 DEF Nothing, Cookie
<1>2. CASE \E i \in Usable : Working = [id |-> i, file |-> stored[i].file]
    BY <1>2 DEF Usable, StoreTyped, Cookie
<1> QED BY <1>1, <1>2, WorkingIsBest DEF BestCookie

\* The engine, and what the jobs hold of it; the batch waits for its own job.
EngineTyped ==
    /\ engine \in Cookie /\ held \in [Jobs -> Cookie \cup {NotReading}]
    /\ held["validate"] # NotReading => val["validate"].pc = "idle"

LEMMA EngineTypedInitially == Init /\ DOMAIN stored \subseteq Ids => EngineTyped
<1> SUFFICES ASSUME Init, DOMAIN stored \subseteq Ids PROVE EngineTyped
    OBVIOUS
<1>1. engine \in Cookie
  <2>1. CASE stored = <<>>
      BY <2>1 DEF Init, CookiesInit, Nothing, Cookie
  <2>2. ASSUME NEW f \in Files, stored = <<[file |-> f, state |-> "inconclusive"]>>
        PROVE  engine \in Cookie
    <3>1. stored # <<>> /\ 1 \in DOMAIN stored /\ stored[1].file = f
        BY <2>2
    <3>2. engine = [id |-> 1, file |-> f]
        BY <3>1 DEF Init, CookiesInit
    <3> QED BY <3>1, <3>2 DEF Cookie
  <2> QED BY <2>1, <2>2 DEF Init, CookiesInit
<1>2. held \in [Jobs -> Cookie \cup {NotReading}] /\ val["validate"].pc = "idle"
    BY DEF Init, CookiesInit, Idle, Validators
<1> QED BY <1>1, <1>2 DEF EngineTyped

LEMMA EngineAside ==
    ASSUME [Next]_vars, ~(HeartbeatJob \/ CollectJob \/ ValidateJob \/ RefreshJob)
    PROVE  UNCHANGED <<engine, held>> /\ (UNCHANGED val \/ CookieCommands)
<1> USE DEF cookieVars
<1>1. CASE CycleSteps
    BY <1>1, CycleFrame
<1>2. CASE AccountCommands
    BY <1>2, CommandsFrame
<1>3. CASE CookieCommands
    BY <1>3 DEF CookieCommands, AddCookie, RemoveCookie, TestCookie, ReadBlob, Probe, WriteVerdict,
                KeepUses, KeepButVal
<1>4. CASE (DiskJob \/ NetworkJob) /\ OnlyGuards
    BY <1>4 DEF OnlyGuards
<1>5. CASE \E a \in Accounts : CheckAges(a) \/ ProfileAges(a)
    BY <1>5 DEF CheckAges, ProfileAges, KeepButRefresh
<1>6. CASE ResumeCommand \/ \E on \in BOOLEAN : SetMonitor(on)
    BY <1>6 DEF ResumeCommand, SetMonitor
<1>7. CASE World
    BY <1>7 DEF World, Expire, ProbesGo, KeepUses, OnlyGuards, Publish, OtherInserts, DiskFull
<1>8. CASE UNCHANGED vars
    BY <1>8 DEF vars
<1> QED BY <1>1, <1>2, <1>3, <1>4, <1>5, <1>6, <1>7, <1>8 DEF Next

LEMMA EngineTypedKept ==
    ASSUME EngineTyped, StoreTyped, RunsTyped, DOMAIN stored \subseteq Ids, [Next]_vars
    PROVE  EngineTyped'
<1>0. ASSUME UNCHANGED <<engine, held>>, val'["validate"] = val["validate"] PROVE EngineTyped'
    BY <1>0 DEF EngineTyped
<1>1. ASSUME NEW j \in Jobs, EnsureReads(j), j = "validate" => val[j].pc = "idle"
      PROVE  EngineTyped'
    BY <1>1, WorkingTyped DEF EngineTyped, EnsureReads
<1>2. ASSUME NEW j \in Jobs, EngineApply(j),
             val'["validate"] = val["validate"] \/ j = "validate"
      PROVE  EngineTyped'
  <2>1. engine' \in Cookie /\ held' \in [Jobs -> Cookie \cup {NotReading}]
      BY <1>2 DEF EngineTyped, EngineApply
  <2>2. held' = [held EXCEPT ![j] = NotReading]
      BY <1>2 DEF EngineApply
  <2>3. held'["validate"] # NotReading => j # "validate" /\ held["validate"] # NotReading
      BY <2>2, MonitorAssumption DEF EngineTyped
  <2> QED BY <1>2, <2>1, <2>3 DEF EngineTyped
<1>3. "heartbeat" \in Jobs /\ "collect" \in Jobs /\ "validate" \in Jobs /\ "refresh" \in Jobs
    BY MonitorAssumption
<1>4. CASE HeartbeatJob
    BY <1>1, <1>2, <1>3, <1>4 DEF HeartbeatJob, EnsureBegins, HeartbeatLaunches
<1>5. CASE CollectJob
    BY <1>1, <1>2, <1>3, <1>5 DEF CollectJob, EnsureBegins, CollectEnsured
<1>6. CASE RefreshJob
  <2>1. CASE PageLoads \/ PageFails \/ ProfileWritten
      BY <1>0, <2>1 DEF PageLoads, PageFails, ProfileWritten, KeepButRefresh, cookieVars
  <2> QED BY <1>1, <1>2, <1>3, <1>6, <2>1 DEF RefreshJob, EnsureBegins, RefreshBegins
<1>7. CASE ValidateJob
  <2>1. CASE EnsureBegins("validate") \/ ValidateEnsured
      BY <1>1, <1>2, <1>3, <2>1 DEF EnsureBegins, ValidateEnsured
  <2>2. CASE BatchReads \/ ReadBlob("validate") \/ Probe("validate") \/ WriteVerdict("validate")
    <3>1. UNCHANGED <<engine, held>> /\ val["validate"].pc # "idle"
        BY <2>2 DEF BatchReads, ReadBlob, Probe, WriteVerdict, KeepButVal
    <3> QED BY <3>1 DEF EngineTyped
  <2> QED BY <1>7, <2>1, <2>2 DEF ValidateJob
<1>8. CASE ~(HeartbeatJob \/ CollectJob \/ ValidateJob \/ RefreshJob)
  <2>1. UNCHANGED <<engine, held>> /\ (UNCHANGED val \/ CookieCommands)
      BY <1>8, EngineAside
  <2>2. CASE CookieCommands
    <3>1. ASSUME NEW i \in Ids, TestCookie(i) PROVE val'["validate"] = val["validate"]
        BY <3>1 DEF TestCookie, RunsTyped, Validators
    <3>2. ASSUME ReadBlob("test") \/ Probe("test") \/ WriteVerdict("test")
          PROVE  val'["validate"] = val["validate"]
        BY <3>2, RunsTypedBySteps DEF Validators
    <3>3. ASSUME \/ \E f \in Files : AddCookie(f)
                 \/ \E i \in Ids : RemoveCookie(i)
          PROVE  UNCHANGED val
        BY <3>3 DEF AddCookie, RemoveCookie, KeepUses
    <3> QED BY <1>0, <2>1, <2>2, <3>1, <3>2, <3>3 DEF CookieCommands
  <2> QED BY <1>0, <2>1, <2>2
<1> QED BY <1>4, <1>5, <1>6, <1>7, <1>8

-----------------------------------------------------------------------------
(* The bounds, and all of it together.                                     *)

SpentTyped == spent \in [Kinds -> Nat] /\ \A k \in Kinds : spent[k] <= Limit[k]

LEMMA SpentTypedKept == SpentTyped /\ [Next]_vars => SpentTyped'
<1> SUFFICES ASSUME SpentTyped, [Next]_vars PROVE SpentTyped'
    OBVIOUS
<1>0. ASSUME UNCHANGED spent \/ \E k \in Kinds : Spend(k) PROVE SpentTyped'
  <2>1. ASSUME NEW k \in Kinds, Spend(k) PROVE SpentTyped'
      BY <2>1, MonitorAssumption DEF Spend, SpentTyped
  <2> QED BY <1>0, <2>1 DEF SpentTyped
<1>1. \A k \in {"monitor", "account", "listing", "enospc", "other", "resume"} : k \in Kinds
    BY MonitorAssumption
<1>2. CASE CycleSteps
    BY <1>0, <1>1, <1>2, CycleFrame
<1>3. CASE HeartbeatJob \/ CollectJob \/ ValidateJob \/ RefreshJob
    BY <1>0, <1>3, JobsFrame
<1>4. CASE AccountCommands
    BY <1>0, <1>1, <1>4 DEF AccountCommands, AddAccount, SetPaused, RemoveCounts, RemoveDeletes
<1>5. CASE OnlyGuards \/ OnlyCookies \/ UNCHANGED vars
    BY <1>0, <1>5 DEF OnlyGuards, OnlyCookies, KeepAll, monitorVars, vars
<1>6. CASE (\E a \in Accounts : CheckAges(a) \/ ProfileAges(a)) \/ ResumeCommand
           \/ \E on \in BOOLEAN : SetMonitor(on)
    BY <1>0, <1>1, <1>6 DEF CheckAges, ProfileAges, KeepButRefresh, ResumeCommand, SetMonitor
<1>7. CASE \E v \in Videos : Publish(v) \/ OtherInserts(v) \/ DiskFull(v)
    BY <1>0, <1>1, <1>7 DEF Publish, OtherInserts, DiskFull
<1> QED BY <1>2, <1>3, <1>4, <1>5, <1>6, <1>7 DEF Next, World

LEMMA ImportedFinite ==
    ASSUME StoreTyped
    PROVE  /\ IsFiniteSet(imported) /\ Cardinality(imported) \in Nat
           /\ DOMAIN stored \subseteq Ids
<1>1. IsFiniteSet(Files) /\ imported \in SUBSET Files
    BY CookiesAssumption DEF StoreTyped
<1>2. IsFiniteSet(imported) /\ Cardinality(imported) <= Cardinality(Files)
    BY <1>1, FS_Subset, Zenon
<1>3. Cardinality(imported) \in Nat /\ Cardinality(Files) \in Nat
    BY <1>1, <1>2, FS_CardinalityType
<1>4. \A i \in DOMAIN stored : i \in Ids
    BY <1>2, <1>3 DEF StoreTyped, Ids
<1> QED BY <1>2, <1>3, <1>4

\* The answers of the probes.
RefusedTyped == refused \subseteq Ids \X Files /\ probes \in BOOLEAN

LEMMA RefusedTypedKept ==
    ASSUME RefusedTyped, RunsTyped, [Next]_vars
    PROVE  RefusedTyped'
<1> USE DEF RefusedTyped
<1>1. ASSUME NEW v \in Validators, ReadBlob(v) \/ Probe(v) \/ WriteVerdict(v)
      PROVE  RefusedTyped'
  <2>1. UNCHANGED probes
      BY <1>1 DEF ReadBlob, Probe, WriteVerdict, KeepButVal
  <2>2. CASE UNCHANGED refused
      BY <2>1, <2>2
  <2>3. CASE Probe(v)
    <3>1. Head(val[v].todo) \in Ids /\ val[v].file \in Files
        BY <2>3 DEF Probe, RunsTyped, RunTyped
    <3>2. refused' \subseteq refused \cup {<<Head(val[v].todo), val[v].file>>}
        BY <2>3 DEF Probe
    <3> QED BY <2>1, <3>1, <3>2
  <2> QED BY <1>1, <2>2, <2>3 DEF ReadBlob, WriteVerdict, KeepButVal
<1>2. CASE CookieCommands
  <2>1. ASSUME \/ \E f \in Files : AddCookie(f)
               \/ \E i \in Ids : RemoveCookie(i) \/ TestCookie(i)
        PROVE  RefusedTyped'
      BY <2>1 DEF AddCookie, RemoveCookie, TestCookie, KeepUses, KeepButVal
  <2> QED BY <1>1, <1>2, <2>1 DEF CookieCommands, Validators
<1>3. CASE ValidateJob
  <2>1. CASE EnsureBegins("validate") \/ ValidateEnsured \/ BatchReads
      BY <2>1 DEF EnsureBegins, EnsureReads, ValidateEnsured, BatchReads, KeepButEngine, KeepButVal
  <2> QED BY <1>1, <1>3, <2>1 DEF ValidateJob, Validators
<1>4. CASE ~CookieCommands /\ ~ValidateJob
    BY <1>4, VerdictAside, CookiesAside DEF verdictVars
<1> QED BY <1>2, <1>3, <1>4

CookiesTyped == StoreTyped /\ RunsTyped /\ EngineTyped /\ RefusedTyped

LEMMA CookiesTypedInitially == Init => CookiesTyped
<1>1. Init => RefusedTyped
    BY DEF Init, CookiesInit, RefusedTyped
<1> QED BY <1>1, StoreTypedInitially, ImportedFinite, RunsTypedInitially, EngineTypedInitially
        DEF CookiesTyped

LEMMA CookiesTypedKept == CookiesTyped /\ [Next]_vars => CookiesTyped'
<1> SUFFICES ASSUME CookiesTyped, [Next]_vars PROVE CookiesTyped'
    OBVIOUS
<1>1. StoreTyped /\ RunsTyped /\ EngineTyped /\ RefusedTyped
    BY DEF CookiesTyped
<1>2. /\ IsFiniteSet(imported) /\ Cardinality(imported) \in Nat /\ DOMAIN stored \subseteq Ids
      /\ (held["validate"] # NotReading => val["validate"].pc = "idle")
    BY <1>1, ImportedFinite DEF EngineTyped
<1> QED BY <1>1, <1>2, StoreTypedKept, RunsTypedKept, EngineTypedKept, RefusedTypedKept
        DEF CookiesTyped

\* Whatever the rows and the times of their validation, the choice that
\* get_working_cookie makes by ORDER BY is determined: there is a working
\* cookie if a row is usable, and it comes before every other usable row.
THEOREM WorkingCookieIsBest == Spec => []BestCookie
<1>1. CookiesTyped => BestCookie
    BY WorkingIsBest DEF CookiesTyped
<1> QED BY <1>1, CookiesTypedInitially, CookiesTypedKept, PTL DEF Spec

MonitorTyped == GuardsTypeOK /\ RowsKnown /\ FeedKnown /\ CookiesTyped /\ SpentTyped

LEMMA MonitorTypedInitially == Init => MonitorTyped
<1> SUFFICES ASSUME Init PROVE MonitorTyped
    OBVIOUS
<1>1. GuardsTypeOK
  <2>1. 0 \in 0..Threshold
      BY GuardsAssumption
  <2> QED BY <2>1, Zenon DEF Init, GuardsInit, GuardsTypeOK
<1>2. SpentTyped
    BY MonitorAssumption DEF Init, SpentTyped
<1> QED BY <1>1, <1>2, RowsKnownInitially, FeedKnownInitially, CookiesTypedInitially
        DEF MonitorTyped

LEMMA MonitorTypedKept == MonitorTyped /\ ListInv /\ [Next]_vars => MonitorTyped'
<1>1. ListInv => AccountsOK
    BY DEF ListInv
<1> QED BY <1>1, GuardsTyped, RowsKnownKept, FeedKnownKept, CookiesTypedKept, SpentTypedKept
        DEF MonitorTyped

LEMMA MonitorTypedIsTypeOK == MonitorTyped /\ ListInv => TypeOK
<1> SUFFICES ASSUME MonitorTyped, ListInv PROVE TypeOK
    OBVIOUS
<1>1. GuardsTypeOK
    BY DEF MonitorTyped
<1>2. /\ DOMAIN stored \subseteq Ids /\ imported \subseteq Files /\ expired \subseteq imported
      /\ \A i \in DOMAIN stored : stored[i] \in [file : imported, state : States]
    BY ImportedFinite DEF MonitorTyped, CookiesTyped, StoreTyped
<1>3. IsInjective(recent) /\ ToSet(recent) \subseteq DOMAIN stored
    BY DEF MonitorTyped, CookiesTyped, StoreTyped, ToSet
<1>4. engine \in Cookie /\ \A j \in Jobs : held[j] \in Cookie \cup {NotReading}
    BY DEF MonitorTyped, CookiesTyped, EngineTyped
<1>5. \A v \in Validators :
        /\ val[v].pc \in {"idle", "list", "read", "probe", "write"}
        /\ val[v].pc \in {"read", "probe", "write"} <=> val[v].todo # <<>>
        /\ val[v].pc = "write" <=> val[v].verdict # "none"
    BY DEF MonitorTyped, CookiesTyped, RunsTyped, RunTyped
<1>6. \A i \in DOMAIN accounts :
        /\ accounts[i] \in [name : Accounts, mode : {"monitor", "history"}, paused : BOOLEAN,
                            review : BOOLEAN, check : {"never", "fresh", "old"}]
        /\ Named(accounts[i].name) = {i} /\ <<i, accounts[i].name>> \in owners
    BY DEF ListInv, AccountsOK, Row, Named
<1>7. /\ DOMAIN rows \subseteq published /\ published \subseteq Videos
      /\ \A v \in DOMAIN rows :
             rows[v] \in [account : DOMAIN accounts, status : {"pending", "done", "failed"}]
  <2>1. \A v \in DOMAIN rows : rows[v].account \in DOMAIN accounts
      BY DEF ListInv, NoOrphanVideos
  <2> QED BY <2>1 DEF MonitorTyped, FeedKnown, VideosKnown, Statuses
<1>8. /\ cycle.pc \in Pcs /\ (cycle.pc \in {"look", "insert"} => cycle.entries # {})
      /\ \A v \in cycle.pending : v \in DOMAIN rows /\ rows[v].status = "pending"
    BY DEF MonitorTyped, FeedKnown, CycleKnown, ListingPcs
<1>9. /\ monitor \in BOOLEAN /\ refresh.pc \in {"off", "page", "write"}
      /\ (\A p \in refreshed : p[1] \in Nat \ {NoId}) /\ removing \subseteq DOMAIN accounts
    BY DEF MonitorTyped, RowsKnown
<1>10. \A k \in Kinds : spent[k] <= Limit[k]
    BY DEF MonitorTyped, SpentTyped
<1>11. DOMAIN accounts \subseteq Nat \ {NoId} /\ owners \subseteq (Nat \ {NoId}) \X Accounts
    BY DEF ListInv, AccountsOK, NoId
<1>12. probes \in BOOLEAN /\ refused \subseteq Ids \X Files
    BY DEF MonitorTyped, CookiesTyped, RefusedTyped
<1> QED BY <1>1, <1>2, <1>3, <1>4, <1>5, <1>6, <1>7, <1>8, <1>9, <1>10, <1>11, <1>12 DEF TypeOK

\* Types: what the jobs, the cycle and the commands hold of the store stays
\* within it, although rows of cookies and of accounts come and go under them.
THEOREM MonitorTypeCorrect == Spec => []TypeOK
<1>1. Init => MonitorTyped /\ ListInv
    BY MonitorTypedInitially, ListInit
<1>2. (MonitorTyped /\ ListInv) /\ [Next]_vars => (MonitorTyped /\ ListInv)'
    BY MonitorTypedKept, ListInductive
<1> QED BY <1>1, <1>2, MonitorTypedIsTypeOK, PTL DEF Spec

-----------------------------------------------------------------------------
(***************************************************************************)
(* The engine and the reuse of ids.  What a job or the daemon holds of a   *)
(* row has an id that was given out, and any two that hold the same id     *)
(* hold the same session, and so does the row, unless the id was given out *)
(* again.                                                                  *)
(***************************************************************************)
Holds(c) == c = engine \/ \E j \in Jobs : c = held[j] /\ c # NotReading

Agree(c, d) == c.id = d.id => c = d \/ c.id \in reissued

HoldInv ==
    /\ \A c \in Cookie : Holds(c) =>
           /\ c = Nothing \/ c.id \in issued
           /\ c.id \in DOMAIN stored => stored[c.id].file = c.file \/ c.id \in reissued
    /\ \A c, d \in Cookie : Holds(c) /\ Holds(d) => Agree(c, d)
    /\ DOMAIN stored \subseteq issued /\ issued \subseteq Ids

LEMMA HoldInvInitially == Init /\ CookiesTyped => HoldInv
<1> SUFFICES ASSUME Init, CookiesTyped PROVE HoldInv
    OBVIOUS
<1>1. \A c \in Cookie : Holds(c) => c = engine
    BY DEF Init, CookiesInit, Holds
<1>2. issued = DOMAIN stored /\ DOMAIN stored \subseteq Ids
    BY ImportedFinite DEF Init, CookiesInit, CookiesTyped
<1>3. engine = Nothing \/ (1 \in DOMAIN stored /\ engine = [id |-> 1, file |-> stored[1].file])
  <2>1. CASE stored = <<>>
      BY <2>1 DEF Init, CookiesInit
  <2>2. ASSUME NEW r, stored = <<r>>
        PROVE  1 \in DOMAIN stored /\ engine = [id |-> 1, file |-> stored[1].file]
    <3>1. stored # <<>> /\ 1 \in DOMAIN stored
        BY <2>2
    <3> QED BY <3>1 DEF Init, CookiesInit
  <2> QED BY <2>1, <2>2 DEF Init, CookiesInit
<1>4. NoId \notin Ids
    BY DEF NoId, Ids
<1> QED BY <1>1, <1>2, <1>3, <1>4 DEF HoldInv, Agree, Nothing

\* What is held comes from what was held or from a row that is there.
LEMMA HoldsFromStore ==
    ASSUME HoldInv, CookiesTyped, UNCHANGED <<stored, issued, reissued>>,
           \A c \in Cookie : Holds(c)' => Holds(c) \/ c = Working
    PROVE  HoldInv'
<1>1. NoId \notin Ids /\ DOMAIN stored \subseteq Ids
    BY ImportedFinite DEF NoId, Ids, CookiesTyped
<1>2. Working = Nothing
        \/ (/\ Working.id \in DOMAIN stored /\ Working.file = stored[Working.id].file
            /\ Working = [id |-> Working.id, file |-> Working.file])
  <2>1. CASE Working = Nothing
      BY <2>1
  <2>2. CASE \E i \in Usable : Working = [id |-> i, file |-> stored[i].file]
      BY <2>2 DEF Usable
  <2> QED BY <2>1, <2>2, WorkingIsBest DEF BestCookie, CookiesTyped
<1>3. \A c \in Cookie : c = [id |-> c.id, file |-> c.file]
    BY DEF Cookie
<1>4. \A c \in Cookie : Holds(c)' =>
        /\ c = Nothing \/ c.id \in issued
        /\ c.id \in DOMAIN stored => stored[c.id].file = c.file \/ c.id \in reissued
    BY <1>1, <1>2 DEF HoldInv, Nothing
<1>5. \A c \in Cookie : Holds(c) => Agree(c, Working) /\ Agree(Working, c)
    BY <1>1, <1>2, <1>3 DEF HoldInv, Agree, Nothing
<1>6. \A c, d \in Cookie : Holds(c)' /\ Holds(d)' => Agree(c, d)
    BY <1>5 DEF HoldInv, Agree
<1> QED BY <1>4, <1>6 DEF HoldInv, Agree

\* The store changes under what is held.
LEMMA HoldsAside ==
    ASSUME HoldInv, CookiesTyped, UNCHANGED <<engine, held>>, reissued \subseteq reissued',
           issued \subseteq issued', issued' \subseteq Ids, DOMAIN stored' \subseteq issued',
           \A i \in DOMAIN stored' :
               IF i \in DOMAIN stored THEN stored'[i].file = stored[i].file \/ i \in reissued'
               ELSE i \notin issued \/ i \in reissued'
    PROVE  HoldInv'
<1>1. \A c : Holds(c)' <=> Holds(c)
    BY DEF Holds
<1>2. NoId \notin Ids
    BY DEF NoId, Ids
<1>3. ASSUME NEW c \in Cookie, Holds(c)
      PROVE  /\ c = Nothing \/ c.id \in issued'
             /\ c.id \in DOMAIN stored' => stored'[c.id].file = c.file \/ c.id \in reissued'
  <2>1. c = Nothing \/ c.id \in issued
      BY <1>3 DEF HoldInv
  <2>2. c.id \in DOMAIN stored => stored[c.id].file = c.file \/ c.id \in reissued
      BY <1>3 DEF HoldInv
  <2>3. c.id \in DOMAIN stored' => c.id \in issued
      BY <1>2, <2>1 DEF Nothing
  <2> QED BY <2>1, <2>2, <2>3
<1>4. \A c, d \in Cookie : Holds(c) /\ Holds(d) => Agree(c, d)'
    BY DEF HoldInv, Agree
<1> QED BY <1>1, <1>3, <1>4 DEF HoldInv

LEMMA HoldInvKept == HoldInv /\ CookiesTyped /\ [Next]_vars => HoldInv'
<1> SUFFICES ASSUME HoldInv, CookiesTyped, [Next]_vars PROVE HoldInv'
    OBVIOUS
<1> USE DEF KeepStore, KeepUses
<1>1. ASSUME NEW j \in Jobs, EnsureReads(j) PROVE HoldInv'
  <2>1. /\ UNCHANGED <<stored, issued, reissued, engine>>
        /\ held' = [held EXCEPT ![j] = Working]
      BY <1>1 DEF EnsureReads
  <2>2. \A k \in Jobs : held'[k] = held[k] \/ held'[k] = Working
      BY <2>1 DEF CookiesTyped, EngineTyped
  <2>3. \A c : Holds(c)' => Holds(c) \/ c = Working
      BY <2>1, <2>2 DEF Holds
  <2> QED BY <2>1, <2>3, HoldsFromStore
<1>2. ASSUME NEW j \in Jobs, EngineApply(j), UNCHANGED <<stored, issued, reissued>>
      PROVE  HoldInv'
  <2>1. /\ held' = [held EXCEPT ![j] = NotReading] /\ held[j] # NotReading
        /\ engine' = engine \/ engine' = held[j]
      BY <1>2 DEF EngineApply
  <2>2. \A k \in Jobs : held'[k] = held[k] \/ held'[k] = NotReading
      BY <2>1 DEF CookiesTyped, EngineTyped
  <2>3. \A c : Holds(c)' => Holds(c)
      BY <2>1, <2>2 DEF Holds
  <2> QED BY <1>2, <2>3, HoldsFromStore
<1>3. ASSUME UNCHANGED <<stored, issued, reissued, engine, held>> PROVE HoldInv'
  <2>1. \A c : Holds(c)' <=> Holds(c)
      BY <1>3 DEF Holds
  <2> QED BY <1>3, <2>1, HoldsFromStore
<1>4. ASSUME NEW v \in Validators, ReadBlob(v) \/ Probe(v) \/ WriteVerdict(v) PROVE HoldInv'
  <2>1. CASE ReadBlob(v) \/ Probe(v)
      BY <1>3, <2>1 DEF ReadBlob, Probe, KeepButVal
  <2>2. CASE WriteVerdict(v)
    <3>1. UNCHANGED <<issued, reissued, engine, held>>
        BY <2>2 DEF WriteVerdict
    <3>2. /\ DOMAIN stored' = DOMAIN stored
          /\ \A i \in DOMAIN stored : stored'[i].file = stored[i].file
      <4>1. \/ UNCHANGED stored
            \/ \E i \in DOMAIN stored : stored' = [stored EXCEPT ![i].state = val[v].verdict]
          BY <2>2 DEF WriteVerdict
      <4>2. \A i \in DOMAIN stored : stored[i] \in [file : imported, state : States]
          BY DEF CookiesTyped, StoreTyped
      <4> QED BY <4>1, <4>2
    <3>3. issued' \subseteq Ids /\ DOMAIN stored' \subseteq issued'
        BY <3>1, <3>2 DEF HoldInv
    <3>4. \A i \in DOMAIN stored' : i \in DOMAIN stored /\ stored'[i].file = stored[i].file
        BY <3>2
    <3> QED BY <3>1, <3>3, <3>4, HoldsAside
  <2> QED BY <1>4, <2>1, <2>2
<1>5. ASSUME NEW f \in Files, AddCookie(f) PROVE HoldInv'
  <2>1. /\ DOMAIN stored' = DOMAIN stored \cup {NextId(stored)} /\ issued' = issued \cup {NextId(stored)}
        /\ \A i \in DOMAIN stored \ {NextId(stored)} : stored'[i] = stored[i]
        /\ UNCHANGED <<engine, held>>
      BY <1>5 DEF AddCookie, WithRow
  <2>2. reissued \subseteq reissued' /\ (NextId(stored) \in issued => NextId(stored) \in reissued')
      BY <1>5 DEF AddCookie
  <2>3. NextId(stored) \in Ids
    <3>1. IsFiniteSet(imported) /\ f \notin imported /\ NextId(stored) \in 1..(Cardinality(imported) + 1)
      <4>1. /\ IsFiniteSet(imported) /\ Cardinality(imported) \in Nat
            /\ DOMAIN stored \subseteq 1..Cardinality(imported)
          BY ImportedFinite DEF CookiesTyped, StoreTyped
      <4> QED BY <1>5, <4>1, NextIdNext DEF AddCookie
    <3>2. imported \cup {f} \in SUBSET Files /\ IsFiniteSet(Files)
        BY CookiesAssumption DEF CookiesTyped, StoreTyped
    <3>3. Cardinality(imported \cup {f}) = Cardinality(imported) + 1
        BY <3>1, FS_AddElement
    <3>4. Cardinality(imported \cup {f}) <= Cardinality(Files)
        BY <3>2, FS_Subset
    <3>5. Cardinality(imported) \in Nat /\ Cardinality(Files) \in Nat
        BY <3>1, <3>2, FS_CardinalityType
    <3> QED BY <3>1, <3>3, <3>4, <3>5 DEF Ids
  <2> QED BY <2>1, <2>2, <2>3, HoldsAside DEF HoldInv
<1>6. ASSUME NEW i \in Ids, RemoveCookie(i) PROVE HoldInv'
  <2>1. /\ DOMAIN stored' = DOMAIN stored \ {i} /\ UNCHANGED <<issued, reissued, engine, held>>
        /\ \A k \in DOMAIN stored' : stored'[k] = stored[k]
      BY <1>6 DEF RemoveCookie
  <2> QED BY <2>1, HoldsAside DEF HoldInv
<1>7. CASE CookieCommands
  <2>1. ASSUME NEW i \in Ids, TestCookie(i) PROVE HoldInv'
      BY <1>3, <2>1 DEF TestCookie, KeepButVal
  <2> QED BY <1>4, <1>5, <1>6, <1>7, <2>1 DEF CookieCommands, Validators
<1>8. "heartbeat" \in Jobs /\ "collect" \in Jobs /\ "validate" \in Jobs /\ "refresh" \in Jobs
    BY MonitorAssumption
<1>9. CASE HeartbeatJob \/ CollectJob \/ RefreshJob
  <2>1. CASE PageLoads \/ PageFails \/ ProfileWritten
      BY <1>3, <2>1 DEF PageLoads, PageFails, ProfileWritten, KeepButRefresh, cookieVars
  <2> QED BY <1>1, <1>2, <1>8, <1>9, <2>1 DEF HeartbeatJob, CollectJob, RefreshJob, EnsureBegins,
             HeartbeatLaunches, CollectEnsured, RefreshBegins, KeepButEngine
<1>10. CASE ValidateJob
  <2>1. CASE BatchReads
      BY <1>3, <2>1 DEF BatchReads, KeepButVal
  <2> QED BY <1>1, <1>2, <1>4, <1>8, <1>10, <2>1 DEF ValidateJob, EnsureBegins, ValidateEnsured,
             KeepButEngine, Validators
<1>11. CASE ~(HeartbeatJob \/ CollectJob \/ RefreshJob \/ ValidateJob \/ CookieCommands)
  <2>1. UNCHANGED <<stored, issued, reissued>>
      BY <1>11, VerdictAside DEF verdictVars
  <2>2. UNCHANGED <<engine, held>>
      BY <1>11, EngineAside
  <2> QED BY <1>3, <2>1, <2>2
<1> QED BY <1>7, <1>9, <1>10, <1>11

\* Only one job applies at a step, and what it applies is the found cookie.
LEMMA AppliesFound ==
    ASSUME HoldInv, CookiesTyped, [Next]_vars, NEW j \in Jobs,
           held[j] # NotReading, held'[j] = NotReading
    PROVE  engine' = held[j] \/ held[j].id \in reissued
<1> USE DEF KeepStore, KeepUses
<1>1. EngineApply(j)
  <2>1. ASSUME NEW k \in Jobs, EnsureReads(k) PROVE FALSE
    <3>1. held' = [held EXCEPT ![k] = Working] /\ held[k] = NotReading
        BY <2>1 DEF EnsureReads
    <3> QED BY <3>1 DEF CookiesTyped, EngineTyped
  <2>2. ASSUME NEW k \in Jobs, EngineApply(k) PROVE k = j
    <3>1. held' = [held EXCEPT ![k] = NotReading]
        BY <2>2 DEF EngineApply
    <3> QED BY <3>1 DEF CookiesTyped, EngineTyped
  <2>3. held' # held
      OBVIOUS
  <2>4. "heartbeat" \in Jobs /\ "collect" \in Jobs /\ "validate" \in Jobs /\ "refresh" \in Jobs
      BY MonitorAssumption
  <2>5. CASE HeartbeatJob \/ CollectJob \/ RefreshJob
    <3>1. ~(PageLoads \/ PageFails \/ ProfileWritten)
        BY <2>3 DEF PageLoads, PageFails, ProfileWritten, KeepButRefresh, cookieVars
    <3> QED BY <2>1, <2>2, <2>4, <2>5, <3>1 DEF HeartbeatJob, CollectJob, RefreshJob, EnsureBegins,
               HeartbeatLaunches, CollectEnsured, RefreshBegins
  <2>6. CASE ValidateJob
    <3>1. ~(BatchReads \/ ReadBlob("validate") \/ Probe("validate") \/ WriteVerdict("validate"))
        BY <2>3 DEF BatchReads, ReadBlob, Probe, WriteVerdict, KeepButVal
    <3> QED BY <2>1, <2>2, <2>4, <2>6, <3>1 DEF ValidateJob, EnsureBegins, ValidateEnsured
  <2> QED BY <2>3, <2>5, <2>6, EngineAside
<1>2. /\ engine \in Cookie /\ Holds(engine)
      /\ held[j] \in Cookie /\ Holds(held[j])
    BY DEF CookiesTyped, EngineTyped, Holds
<1>3. Agree(held[j], engine)
    BY <1>2 DEF HoldInv
<1>4. engine' = IF held[j].id = engine.id THEN engine ELSE held[j]
    BY <1>1 DEF EngineApply
<1> QED BY <1>3, <1>4 DEF Agree

\* After ensure_engine the engine is that of the cookie it found, whatever
\* commands did to the rows meanwhile and however many jobs rebuild it at once,
\* unless the id of that cookie has been given out twice.
THEOREM EngineIsTheFound == Spec => EngineIsFoundCookie
<1>1. HoldInv /\ CookiesTyped /\ [Next]_vars =>
        [\A j \in Jobs :
            held[j] # NotReading /\ held'[j] = NotReading
                => engine' = held[j] \/ held[j].id \in reissued]_vars
  <2> SUFFICES ASSUME HoldInv, CookiesTyped, [Next]_vars, NEW j \in Jobs,
                      held[j] # NotReading, held'[j] = NotReading
               PROVE  engine' = held[j] \/ held[j].id \in reissued
      OBVIOUS
  <2> QED BY AppliesFound
<1>2. Init => HoldInv
    BY CookiesTypedInitially, HoldInvInitially
<1>3. Init /\ [][Next]_vars => [](HoldInv /\ CookiesTyped)
    BY <1>2, HoldInvKept, CookiesTypedInitially, CookiesTypedKept, PTL
<1>4. Init /\ [][Next]_vars => EngineIsFoundCookie
    BY <1>1, <1>3, PTL DEF EngineIsFoundCookie
<1> QED BY <1>4, PTL DEF Spec
=============================================================================
