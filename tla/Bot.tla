-------------------------------- MODULE Bot ---------------------------------
(***************************************************************************)
(* The Telegram bot's handling of one update after the other               *)
(* (bot/dispatcher.py): authorization, burst count and throttle            *)
(* (bot/security.py), the commands and what they report, the upload of a   *)
(* cookie file, and the pages of the list (bot/pagination.py).             *)
(*                                                                         *)
(* The application handles updates in turn.  A call of Telegram or of a    *)
(* service is a step of its own; meanwhile other processes change the      *)
(* accounts, time passes and the shutdown may cancel the handler.  A call  *)
(* of Telegram that raises may have reached it all the same.               *)
(***************************************************************************)
EXTENDS Integers, SequencesExt

CONSTANTS
    Users, Allowed,    \* who writes, and TELEGRAM_USER_ID (all of them if unset)
    Throttle,          \* COMMAND_THROTTLE_SECONDS, in ticks of the clock
    BurstWindow, BurstLimit,
    Ttl,               \* CALLBACK_TTL_SECONDS
    PageSize, Accounts,
    Attempts, Faults, Outside  \* bounds: denied updates of a user within the
                       \* window, failing calls, changes by other processes

ASSUME BotAssumption ==
    /\ IsFiniteSet(Users) /\ Allowed \subseteq Users
    /\ {Throttle, BurstWindow, BurstLimit, Ttl, PageSize} \subseteq Nat \ {0}
    /\ IsFiniteSet(Accounts) /\ Accounts \subseteq Nat
    /\ {Attempts, Faults, Outside} \subseteq Nat

VARIABLES
    accounts,    \* the accounts with a row, and whether each is paused
    last,        \* age of the last accepted update (capped)
    attempts,    \* per user, the ages of the unauthorized attempts on record
    temp,        \* a temporary cookie file exists
    screen,      \* the list that is shown, with its buttons
    h,           \* the update in hand
    accepted,    \* history: age of the last verdict "allowed" (capped)
    denied,      \* history: ages of all unauthorized attempts in the window
    walk,        \* history: what the pages have shown since /list, followed in order
    faults, outside

guardVars == <<last, attempts, accepted, denied>>
vars == <<accounts, temp, screen, h, walk, faults, outside, guardVars>>

Changes == {"add", "remove", "pause", "resume", "backfill"}
Works == Changes \cup {"info", "show", "list", "upload", "page"}
Caller == [chat : {"home", "other", "none"}, user : Users]
NoPage == [rows |-> <<>>, page |-> 0, total |-> 0, age |-> 0]
NoWalk == <<-1>>   \* no account has this id

Idle ==
    [pc |-> "idle", work |-> "none", chat |-> "none", target |-> 0,
     fresh |-> FALSE, forward |-> FALSE,   \* of a callback: within its TTL, and the screen's "next"
     verdict |-> "none", count |-> 0, text |-> "none", shown |-> NoPage,
     already |-> FALSE,    \* get_account found the account in the state asked for
     final |-> FALSE,      \* in an except branch: a failing send is suppressed
     answered |-> FALSE,   \* the local variable of on_list_page
     sent |-> <<>>, answers |-> 0, deleted |-> FALSE,   \* what reached Telegram
     effect |-> FALSE, faulty |-> FALSE, cancelled |-> FALSE]

Init ==
    /\ accounts \in UNION {[S -> {FALSE}] : S \in SUBSET Accounts}
    /\ last = Throttle /\ accepted = Throttle
    /\ attempts = [u \in Users |-> <<>>] /\ denied = [u \in Users |-> <<>>]
    /\ temp = FALSE /\ screen = NoPage /\ walk = NoWalk /\ h = Idle
    /\ faults = 0 /\ outside = 0

At(pc) == h.pc = pc
To(pc) == h' = [h EXCEPT !.pc = pc]
Says(text) == h' = [h EXCEPT !.pc = "reply", !.text = text]
Spend == faults < Faults /\ faults' = faults + 1

(***************************************************************************)
(* SecurityGuard.check: first the caller, then the throttle.               *)
(***************************************************************************)
Authorized(c) == c.chat = "home" /\ c.user \in Allowed

\* The attempts that still count: the loop over the window.
Recent(ages) ==
    LET kept[n \in 0..Len(ages)] ==
            IF n = 0 THEN <<>>
            ELSE IF ages[n] < BurstWindow THEN Append(kept[n - 1], ages[n]) ELSE kept[n - 1]
    IN  kept[Len(ages)]

\* Mutant: the throttle comes first.
CheckThrottleFirst(c) ==
    LET attempt == Append(Recent(attempts[c.user]), 0)
    IN  CASE c.chat = "home" /\ last < Throttle ->
                 [verdict |-> "throttled", count |-> 0, last |-> last, attempts |-> attempts]
          [] ~(c.chat = "home" /\ last < Throttle) /\ ~Authorized(c) ->
                 [verdict |-> "denied", count |-> 0, last |-> IF c.chat = "home" THEN 0 ELSE last,
                  attempts |-> [attempts EXCEPT ![c.user] = attempt]]
          [] OTHER ->
                 [verdict |-> "allowed", count |-> 0, last |-> 0, attempts |-> attempts]

Check(c) ==
    LET window == Append(Recent(attempts[c.user]), 0)
        burst == Len(window) >= BurstLimit
    IN  CASE ~Authorized(c) ->
                 [verdict |-> IF burst THEN "burst" ELSE "denied",
                  count |-> IF burst THEN Len(window) ELSE 0,
                  last |-> last, attempts |-> [attempts EXCEPT ![c.user] = window]]
          [] Authorized(c) /\ last < Throttle ->
                 [verdict |-> "throttled", count |-> 0, last |-> last, attempts |-> attempts]
          [] OTHER ->
                 [verdict |-> "allowed", count |-> 0, last |-> 0, attempts |-> attempts]

(***************************************************************************)
(* An update arrives: a command or document, or a press of a button.       *)
(***************************************************************************)
FirstStep(work) ==
    CASE work = "info" -> "reply"
      [] work \in {"show", "list"} -> "read"
      [] work \in {"pause", "resume"} -> "look"
      [] work \in {"add", "remove", "backfill"} -> "service"
      [] work = "upload" -> "get"

Takes(work, c, next) ==
    LET k == Check(c)
    IN  /\ At("idle")
        /\ Len(denied[c.user]) < Attempts
        /\ h' = [next EXCEPT !.work = work, !.chat = c.chat, !.verdict = k.verdict,
                             !.count = k.count,
                             !.pc = CASE work = "page" -> "answer"
                                      [] work # "page" /\ k.verdict = "allowed" -> FirstStep(work)
                                      [] OTHER -> "reply",
                             !.text = IF k.verdict = "allowed" THEN "info" ELSE k.verdict]
        /\ last' = k.last /\ attempts' = k.attempts
        /\ accepted' = IF k.verdict = "allowed" THEN 0 ELSE accepted
        /\ denied' = IF Authorized(c) THEN denied ELSE [denied EXCEPT ![c.user] = Append(@, 0)]
        /\ UNCHANGED <<accounts, temp, screen, walk, faults, outside>>

Command(work, c, a) ==
    /\ work # "page"
    /\ Takes(work, c, [Idle EXCEPT !.target = IF work \in Changes THEN a ELSE 0])

\* A button of the list that is shown ...
PressNext(c) ==
    /\ screen.page + 1 < screen.total
    /\ Takes("page", c, [Idle EXCEPT !.target = screen.page + 1, !.forward = TRUE,
                                     !.fresh = screen.age <= Ttl])

\* ... or one of an older message, for a page the list may no longer have.
PressOld(c, page, fresh) == Takes("page", c, [Idle EXCEPT !.target = page, !.fresh = fresh])

(***************************************************************************)
(* An exception: a command ends with one more message, a refusal or an     *)
(* apology, whatever comes of that; a callback is answered if it is not.   *)
(***************************************************************************)
Raised(x, text) ==
    CASE x.final -> [x EXCEPT !.pc = "done"]
      [] ~x.final /\ x.work = "page" ->
             [x EXCEPT !.pc = IF x.answered THEN "done" ELSE "answer", !.final = TRUE]
      [] OTHER -> [x EXCEPT !.pc = "reply", !.text = text, !.final = TRUE]

Apology(x) == Raised(x, "internal")
Faulty == [h EXCEPT !.faulty = TRUE]   \* a call of Telegram raises

(***************************************************************************)
(* Sending: _send_degrading, after which every handler ends.  A temporary  *)
(* file goes in the finally of the step that ends its use.                 *)
(***************************************************************************)
Reaches(x) == [x EXCEPT !.sent = Append(@, h.text)]
NoChat == h.chat = "none" /\ h.work # "page"
KeepButSending == UNCHANGED <<accounts, outside, guardVars>>

\* "Too large" is said inside the try, a refusal or an apology after it.
FinallyOfUpload == temp' = (temp /\ h.final)

Delivered ==
    /\ h.pc \in {"reply", "plain"}
    /\ h' = [(IF NoChat THEN h ELSE Reaches(h)) EXCEPT !.pc = "done"]
    /\ screen' = IF h.text = "page" THEN h.shown ELSE screen
    /\ FinallyOfUpload
    /\ UNCHANGED <<walk, faults>> /\ KeepButSending

\* Mutant: what the markup breaks is an error like any other.
MarkupIsFatal ==
    /\ At("reply") /\ ~NoChat /\ h' = Apology(h)
    /\ UNCHANGED <<screen, temp, walk, faults>> /\ KeepButSending

\* Clipping may cut a tag in two: the same text again, without a parse mode.
MarkupRejected ==
    /\ At("reply") /\ ~NoChat /\ To("plain")
    /\ UNCHANGED <<screen, temp, walk, faults>> /\ KeepButSending

SendFails ==
    /\ h.pc \in {"reply", "plain"} /\ ~NoChat /\ Spend
    /\ \E x \in {Faulty, Reaches(Faulty)} : h' = Apology(x)
    /\ FinallyOfUpload /\ walk' = NoWalk
    /\ UNCHANGED screen /\ KeepButSending

(***************************************************************************)
(* The commands.                                                           *)
(***************************************************************************)
KeepButHand == UNCHANGED <<accounts, temp, screen, outside, guardVars>>

ServiceFails ==
    /\ h.pc \in {"read", "look", "service"} /\ Spend
    /\ h' = Apology(h) /\ walk' = NoWalk
    /\ KeepButHand

\* ORDER BY id: the i-th account has i - 1 before it.
Sorted ==
    [i \in 1..Cardinality(DOMAIN accounts) |->
        CHOOSE a \in DOMAIN accounts : Cardinality({b \in DOMAIN accounts : b < a}) = i - 1]

Sheet(page, total) ==
    [rows |-> SubSeq(Sorted, page * PageSize + 1, Min({Len(Sorted), (page + 1) * PageSize})),
     page |-> page, total |-> total, age |-> 0]
Pages == (Len(Sorted) + PageSize - 1) \div PageSize

\* Mutant: the last page does not count unless it is full.
RenderedFloor(page) ==
    LET total == Max({1, Len(Sorted) \div PageSize})
    IN  IF Sorted = <<>> THEN NoPage ELSE Sheet(Min({page, total - 1}), total)

\* render_list_page, and build_list_keyboard: the buttons follow from the page.
Rendered(page) == IF Sorted = <<>> THEN NoPage ELSE Sheet(Min({page, Pages - 1}), Pages)

ReadForReply ==
    /\ At("read") /\ h.work = "show" /\ Says("info")
    /\ UNCHANGED <<walk, faults>> /\ KeepButHand

ReadPage ==
    /\ At("read") /\ h.work \in {"list", "page"}
    /\ LET shown == Rendered(h.target)
       IN  /\ h' = [h EXCEPT !.pc = "reply", !.text = "page", !.shown = shown]
           /\ walk' = CASE h.work = "list" -> shown.rows
                        [] h.forward /\ walk # NoWalk -> walk \o shown.rows
                        [] OTHER -> NoWalk
    /\ UNCHANGED faults /\ KeepButHand

LookUpAccount ==
    /\ At("look")
    /\ h' = [h EXCEPT !.pc = "service",
                      !.already = /\ h.target \in DOMAIN accounts
                                  /\ accounts[h.target] = (h.work = "pause")]
    /\ UNCHANGED <<walk, faults>> /\ KeepButHand

KeepButService == UNCHANGED <<temp, screen, faults, outside, guardVars>>

Added(a) == [b \in DOMAIN accounts \cup {a} |-> b \in DOMAIN accounts /\ accounts[b]]
Removed(a) == [b \in DOMAIN accounts \ {a} |-> accounts[b]]

Unknown == h.target \notin DOMAIN accounts
Inapplicable == IF h.work = "add" THEN ~Unknown ELSE Unknown

ServiceDone ==
    /\ At("service") /\ ~Inapplicable
    /\ accounts' = CASE h.work = "add" -> Added(h.target)
                     [] h.work = "remove" -> Removed(h.target)
                     [] h.work \in {"pause", "resume"} ->
                            [accounts EXCEPT ![h.target] = (h.work = "pause")]
                     [] OTHER -> accounts
    /\ h' = [h EXCEPT !.pc = "reply", !.text = IF h.already THEN "already" ELSE "done",
                      !.effect = TRUE]
    /\ walk' = NoWalk /\ KeepButService

\* A ConfigurationError; also for an account that still has videos, or that is
\* being backfilled.
ServiceRefuses ==
    /\ At("service") /\ (Inapplicable \/ h.work \in {"remove", "backfill"})
    /\ h' = Raised(h, "refused")
    /\ UNCHANGED <<accounts, walk>> /\ KeepButService

(***************************************************************************)
(* The upload of a cookie file.                                            *)
(***************************************************************************)
KeepButUpload == UNCHANGED <<accounts, screen, walk, outside, guardVars>>

TooLargeByMetadata ==
    /\ At("get") /\ Says("too large")
    /\ UNCHANGED <<temp, faults>> /\ KeepButUpload

GetFile ==
    /\ At("get") /\ To("download") /\ temp' = TRUE
    /\ UNCHANGED faults /\ KeepButUpload

Downloaded ==
    /\ At("download")
    /\ To("store") \/ Says("too large")
    /\ UNCHANGED <<temp, faults>> /\ KeepButUpload

\* Mutant: the file goes with a completed import only.
UploadFailsLeaves ==
    /\ h.pc \in {"get", "download", "store"} /\ Spend
    /\ h' = Apology(IF At("store") THEN h ELSE Faulty)
    /\ UNCHANGED temp /\ KeepButUpload

UploadFails ==
    /\ h.pc \in {"get", "download", "store"} /\ Spend
    /\ h' = Apology(IF At("store") THEN h ELSE Faulty)
    /\ temp' = FALSE /\ KeepButUpload

CookieRefused ==
    /\ At("store") /\ h' = Raised(h, "refused") /\ temp' = FALSE
    /\ UNCHANGED faults /\ KeepButUpload

CookieStored ==
    /\ At("store") /\ h' = [h EXCEPT !.pc = "delete", !.effect = TRUE] /\ temp' = FALSE
    /\ UNCHANGED faults /\ KeepButUpload

MessageDeleted ==
    /\ At("delete") /\ h' = [h EXCEPT !.pc = "reply", !.text = "done", !.deleted = TRUE]
    /\ UNCHANGED <<temp, faults>> /\ KeepButUpload

\* Best effort.
DeleteFails ==
    /\ At("delete") /\ Spend
    /\ \E gone \in BOOLEAN :
           h' = [h EXCEPT !.pc = "reply", !.text = "done", !.deleted = gone, !.faulty = TRUE]
    /\ UNCHANGED temp /\ KeepButUpload

(***************************************************************************)
(* The answer to a callback, before anything else is done about it.        *)
(***************************************************************************)
Answers ==
    /\ At("answer")
    /\ h' = [h EXCEPT !.answers = @ + 1, !.answered = TRUE,
                      !.pc = CASE h.final -> "done"
                               [] ~h.final /\ h.verdict # "allowed" -> "reply"
                               [] ~h.final /\ h.verdict = "allowed" /\ ~h.fresh -> "done"
                               [] OTHER -> "read"]
    /\ UNCHANGED <<walk, faults>> /\ KeepButHand

AnswerFails ==
    /\ At("answer") /\ Spend
    /\ \E n \in {0, 1} : h' = Apology([Faulty EXCEPT !.answers = @ + n])
    /\ UNCHANGED walk /\ KeepButHand

(***************************************************************************)
(* The handler ends, or is cancelled where it waits; and the rest of the   *)
(* world.                                                                  *)
(***************************************************************************)
Finish == At("done") /\ h' = Idle /\ UNCHANGED <<walk, faults>> /\ KeepButHand

Cancelled ==
    /\ h.pc \notin {"idle", "done"} /\ Spend
    /\ h' = [h EXCEPT !.pc = "done", !.cancelled = TRUE]
    /\ temp' = FALSE /\ walk' = NoWalk
    /\ UNCHANGED screen /\ KeepButSending

Elsewhere ==
    /\ outside < Outside /\ outside' = outside + 1
    /\ \E a \in Accounts :
           accounts' = IF a \in DOMAIN accounts THEN Removed(a) ELSE Added(a)
    /\ walk' = NoWalk
    /\ UNCHANGED <<temp, screen, h, faults, guardVars>>

Older(age, cap) == IF age < cap THEN age + 1 ELSE age
AllOlder(ages) == [u \in Users |-> [k \in DOMAIN ages[u] |-> Older(ages[u][k], BurstWindow)]]
OlderPage(p) == IF p.total = 0 THEN p ELSE [p EXCEPT !.age = Older(@, Ttl + 1)]

Tick ==
    /\ last' = Older(last, Throttle) /\ accepted' = Older(accepted, Throttle)
    /\ attempts' = AllOlder(attempts)
    /\ denied' = [u \in Users |-> Recent(AllOlder(denied)[u])]
    /\ screen' = OlderPage(screen) /\ h' = [h EXCEPT !.shown = OlderPage(@)]
    /\ UNCHANGED <<accounts, temp, walk, faults, outside>>

Updates ==
    \/ \E work \in Works, c \in Caller, a \in Accounts : Command(work, c, a)
    \/ \E c \in Caller : PressNext(c)
    \/ \E c \in Caller, page \in 0..(Cardinality(Accounts) \div PageSize), fresh \in BOOLEAN :
           PressOld(c, page, fresh)

Handling ==
    \/ Delivered \/ MarkupRejected \/ SendFails
    \/ ServiceFails \/ ReadForReply \/ ReadPage \/ LookUpAccount \/ ServiceDone \/ ServiceRefuses
    \/ TooLargeByMetadata \/ GetFile \/ Downloaded \/ UploadFails
    \/ CookieRefused \/ CookieStored \/ MessageDeleted \/ DeleteFails
    \/ Answers \/ AnswerFails
    \/ Finish

Next == Updates \/ Handling \/ Cancelled \/ Elsewhere \/ Tick

Spec == Init /\ [][Next]_vars

Pcs == {"idle", "reply", "plain", "read", "look", "service", "get", "download", "store", "delete",
        "answer", "done"}

TypeOK ==
    /\ DOMAIN accounts \subseteq Accounts /\ \A a \in DOMAIN accounts : accounts[a] \in BOOLEAN
    /\ last \in 0..Throttle /\ temp \in BOOLEAN /\ h.pc \in Pcs
    /\ \A u \in Users : ToSet(attempts[u]) \subseteq 0..BurstWindow
    /\ screen.page <= screen.total /\ ToSet(screen.rows) \subseteq Accounts
    /\ Len(screen.rows) <= PageSize
    /\ (screen.total > 0) <=> (screen.rows # <<>>)
    /\ Len(h.sent) <= 2 /\ h.answers <= 2
    /\ temp => h.work = "upload" /\ h.pc \in {"download", "store", "reply", "plain"}

(***************************************************************************)
(* The throttle is that of the authorized callers (T-BOT-11): an update    *)
(* is only throttled if another one was accepted within the window before, *)
(* none is accepted within it, and nobody else's updates count, those of   *)
(* other users of the same chat and of callbacks included.                 *)
(***************************************************************************)
ThrottleIsTheirs ==
    [][At("idle") /\ ~At("idle")' =>
          /\ h'.verdict = "throttled" => accepted < Throttle
          /\ h'.verdict = "allowed" => accepted = Throttle]_vars

(***************************************************************************)
(* The count that a burst reports is that of the user's own unauthorized   *)
(* attempts within the window, none forgotten and none too old.            *)
(***************************************************************************)
BurstIsCounted ==
    [][At("idle") /\ ~At("idle")' =>
          \A u \in Users : denied'[u] # denied[u] =>
              IF Len(denied'[u]) >= BurstLimit
              THEN h'.verdict = "burst" /\ h'.count = Len(denied'[u])
              ELSE h'.verdict = "denied"]_vars

(***************************************************************************)
(* What a command reports is what it did (T-BOT-4): done only once it is   *)
(* committed, refused only if it changed nothing; and the operator reads   *)
(* "try again later" of a change that was made only when a message could   *)
(* not be sent, not because of its markup.                                 *)
(***************************************************************************)
ReportIsTrue ==
    \A k \in DOMAIN h.sent :
        /\ h.sent[k] \in {"done", "already"} => h.effect
        /\ h.sent[k] = "refused" => ~h.effect
        /\ h.sent[k] = "internal" => ~h.effect \/ h.faulty

(***************************************************************************)
(* Every command gets one reply, whatever fails, short of Telegram itself  *)
(* and of a shutdown.                                                      *)
(***************************************************************************)
OneReply ==
    At("done") /\ h.work # "page" /\ ~h.faulty /\ ~h.cancelled /\ h.chat # "none"
        => Len(h.sent) = 1

(***************************************************************************)
(* A callback is answered exactly once on every path (dispatcher.py:604),  *)
(* unless the first answer itself has raised.                              *)
(***************************************************************************)
OneAnswer ==
    At("done") /\ h.work = "page" =>
        /\ h.answers <= 1 \/ h.final
        /\ h.answers = 1 \/ h.faulty \/ h.cancelled

(***************************************************************************)
(* No cookie file outlives its handler, however it ends (T-COOKIES-7), and *)
(* the message that carried it is only deleted once the cookie is stored.  *)
(***************************************************************************)
CookieFileHandled ==
    /\ h.pc \in {"idle", "done"} => ~temp
    /\ h.deleted => h.effect

(***************************************************************************)
(* Whoever follows the list to its last page has seen every account, once, *)
(* unless the accounts changed on the way.                                 *)
(***************************************************************************)
WalkShowsAll ==
    At("done") /\ h.sent = <<"page">> /\ walk # NoWalk /\ screen.page + 1 = screen.total
        => walk = Sorted

(***************************************************************************)
(* A press never leads beyond the list, though it has become shorter since *)
(* the button was made: as long as there are accounts, some are shown.     *)
(***************************************************************************)
ShownIsThere ==
    [][At("read") /\ At("reply")' /\ h'.text = "page" /\ accounts # <<>>
          => h'.shown.rows # <<>> /\ ToSet(h'.shown.rows) \subseteq DOMAIN accounts]_vars
=============================================================================
