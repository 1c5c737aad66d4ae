----------------------------- MODULE BotProofs ------------------------------
(***************************************************************************)
(* Theorems about Bot, for all users, settings and bounds: the throttle is *)
(* that of the authorized callers, an uploaded cookie file does not        *)
(* outlive its handler, a command reports what it did and is replied to,   *)
(* a press is answered once and stays within the list, and the pages of    *)
(* the list show every account once.                                       *)
(***************************************************************************)
EXTENDS Bot, TLAPS, FiniteSetTheorems, WellFoundedInduction, SequenceTheorems

(***************************************************************************)
(* The shape of the update in hand: what EXCEPT needs to know of h.        *)
(***************************************************************************)
Hand(x) ==
    x = [pc |-> x.pc, work |-> x.work, chat |-> x.chat, target |-> x.target,
         fresh |-> x.fresh, forward |-> x.forward, verdict |-> x.verdict,
         count |-> x.count, text |-> x.text, shown |-> x.shown, already |-> x.already,
         final |-> x.final, answered |-> x.answered, sent |-> x.sent,
         answers |-> x.answers, deleted |-> x.deleted, effect |-> x.effect,
         faulty |-> x.faulty, cancelled |-> x.cancelled]

(***************************************************************************)
(* The age the throttle compares is that of the last accepted update.      *)
(***************************************************************************)
AgesAgree == last = accepted /\ accepted \in 0..Throttle

(***************************************************************************)
(* Where a temporary file may exist, and what has happened by then.        *)
(***************************************************************************)
FileHeld ==
    /\ temp \in BOOLEAN /\ h.final \in BOOLEAN
    /\ h.pc \in Pcs
    /\ temp => h.pc \in {"download", "store", "reply", "plain"} /\ ~h.final
    /\ h.pc \in {"get", "download", "store"} => ~h.final
    /\ h.pc = "delete" => h.effect
    /\ h.deleted => h.effect

BotInv == Hand(h) /\ AgesAgree /\ FileHeld

(***************************************************************************)
(* An update before anything has been done about it.                       *)
(***************************************************************************)
Fresh(x) ==
    /\ Hand(x) /\ x.final = FALSE /\ x.effect = FALSE /\ x.deleted = FALSE
    /\ x.faulty = FALSE /\ x.sent = <<>> /\ x.answers = 0 /\ x.answered = FALSE

(***************************************************************************)
(* Raising an exception keeps the shape of the update in hand.             *)
(***************************************************************************)
LEMMA RaisedShape ==
    ASSUME NEW x, Hand(x), x.final \in BOOLEAN, NEW text
    PROVE  /\ Hand(Raised(x, text))
           /\ Raised(x, text).pc \in {"done", "answer", "reply"}
           /\ Raised(x, text).final = TRUE
           /\ Raised(x, text).effect = x.effect
           /\ Raised(x, text).deleted = x.deleted
BY DEF Raised, Hand

LEMMA AnswersShape ==
    ASSUME NEW x, Hand(x), NEW n, NEW y, y = [x EXCEPT !.answers = n]
    PROVE  Hand(y) /\ y.final = x.final /\ y.effect = x.effect /\ y.deleted = x.deleted
BY DEF Hand

(***************************************************************************)
(* An update that arrives finds no file and no handler, and starts one.    *)
(***************************************************************************)
LEMMA Arrival ==
    ASSUME NEW work \in Works, NEW c \in Caller, NEW next, Fresh(next),
           Takes(work, c, next), BotInv
    PROVE  /\ Fresh(h')
           /\ h'.pc \in {"reply", "read", "look", "service", "get", "answer"}
           /\ h'.pc = "answer" <=> work = "page"
           /\ h'.pc = "get" => work = "upload"
           /\ h'.verdict = Check(c).verdict
           /\ h'.text \in {"info", "denied", "burst", "throttled"}
           /\ h'.work = work /\ h'.target = next.target /\ h'.forward = next.forward
           /\ h'.shown = next.shown
           /\ UNCHANGED temp /\ temp = FALSE
<1> DEFINE k == Check(c)
           pc == CASE work = "page" -> "answer"
                   [] work # "page" /\ k.verdict = "allowed" -> FirstStep(work)
                   [] OTHER -> "reply"
           text == IF k.verdict = "allowed" THEN "info" ELSE k.verdict
<1>1. /\ pc \in {"reply", "read", "look", "service", "get", "answer"}
      /\ pc = "answer" <=> work = "page"
      /\ pc = "get" => work = "upload"
  <2>1. CASE work = "page"
    BY <2>1
  <2>2. CASE work # "page" /\ k.verdict = "allowed"
    BY <2>2 DEF FirstStep, Works, Changes
  <2>3. CASE work # "page" /\ k.verdict # "allowed"
    BY <2>3
  <2>4. QED
    BY <2>1, <2>2, <2>3
<1>2. h' = [next EXCEPT !.work = work, !.chat = c.chat, !.verdict = k.verdict,
                        !.count = k.count, !.pc = pc, !.text = text]
  BY DEF Takes
<1>3. /\ Fresh(h') /\ h'.pc = pc /\ h'.verdict = k.verdict /\ h'.text = text
      /\ h'.work = work /\ h'.target = next.target /\ h'.forward = next.forward
      /\ h'.shown = next.shown
  <2> HIDE DEF k, pc, text
  <2> QED BY <1>2 DEF Fresh, Hand
<1>4. UNCHANGED temp /\ temp = FALSE
  BY DEF Takes, At, BotInv, FileHeld
<1>5. text \in {"info", "denied", "burst", "throttled"}
  BY DEF Check
<1> QED BY <1>1, <1>3, <1>4, <1>5

(***************************************************************************)
(* The ages: only an update and a tick touch them, and both alike.         *)
(***************************************************************************)
LEMMA AgesKept ==
    ASSUME AgesAgree, [Next]_vars
    PROVE  AgesAgree'
<1> USE DEF AgesAgree
<1>0. Throttle \in Nat /\ Throttle > 0
  BY BotAssumption
<1>1. ASSUME NEW work, NEW c, NEW next, Takes(work, c, next)
      PROVE  AgesAgree'
  <2>1. Check(c).last = IF Check(c).verdict = "allowed" THEN 0 ELSE last
    BY DEF Check
  <2>2. last' = Check(c).last
        /\ accepted' = IF Check(c).verdict = "allowed" THEN 0 ELSE accepted
    BY <1>1 DEF Takes
  <2>3. QED
    BY <2>1, <2>2, <1>0
<1>2. CASE Updates
  BY <1>1, <1>2 DEF Updates, Command, PressNext, PressOld
<1>3. CASE Handling
  BY <1>3 DEF Handling, Delivered, MarkupRejected, SendFails, ServiceFails, ReadForReply,
     ReadPage, LookUpAccount, ServiceDone, ServiceRefuses, TooLargeByMetadata, GetFile,
     Downloaded, UploadFails, CookieRefused, CookieStored, MessageDeleted, DeleteFails,
     Answers, AnswerFails, Finish, KeepButSending, KeepButHand, KeepButService,
     KeepButUpload, guardVars
<1>4. CASE Tick
  BY <1>0, <1>4 DEF Tick, Older
<1>5. CASE Cancelled \/ Elsewhere \/ UNCHANGED vars
  BY <1>5 DEF Cancelled, Elsewhere, KeepButSending, vars, guardVars
<1>6. QED
  BY <1>2, <1>3, <1>4, <1>5 DEF Next

(***************************************************************************)
(* The file and the handler's place.                                       *)
(***************************************************************************)
LEMMA Sending ==
    ASSUME BotInv, Delivered \/ MarkupRejected \/ SendFails
    PROVE  Hand(h') /\ FileHeld'
<1> USE DEF BotInv, FileHeld, Pcs
<1>1. CASE Delivered
  <2>1. PICK x \in {h, Reaches(h)} : h' = [x EXCEPT !.pc = "done"]
    BY <1>1 DEF Delivered
  <2>2. Hand(x) /\ x.final = h.final /\ x.effect = h.effect /\ x.deleted = h.deleted
    BY DEF Hand, Reaches
  <2>3. /\ Hand(h') /\ h'.pc = "done" /\ h'.final = h.final /\ h'.effect = h.effect
        /\ h'.deleted = h.deleted
    BY <2>1, <2>2 DEF Hand
  <2>4. temp' = FALSE
    BY <1>1 DEF Delivered, FinallyOfUpload
  <2>5. QED
    BY <2>3, <2>4
<1>2. CASE MarkupRejected
  <2>1. Hand(h') /\ h'.pc = "plain" /\ h'.final = h.final /\ h'.effect = h.effect
        /\ h'.deleted = h.deleted
    BY <1>2 DEF MarkupRejected, To, Hand
  <2>2. QED
    BY <1>2, <2>1 DEF MarkupRejected, At
<1>3. CASE SendFails
  <2>1. PICK x \in {Faulty, Reaches(Faulty)} : h' = Apology(x)
    BY <1>3 DEF SendFails
  <2>2. Hand(x) /\ x.final = h.final /\ x.effect = h.effect /\ x.deleted = h.deleted
    BY <2>1 DEF Hand, Faulty, Reaches
  <2>3. /\ Hand(h') /\ h'.pc \in {"done", "answer", "reply"} /\ h'.final = TRUE
        /\ h'.effect = h.effect /\ h'.deleted = h.deleted
    BY <2>1, <2>2, RaisedShape DEF Apology
  <2>4. temp' = FALSE
    BY <1>3 DEF SendFails, FinallyOfUpload
  <2>5. QED
    BY <2>3, <2>4
<1>4. QED
  BY <1>1, <1>2, <1>3

LEMMA Serving ==
    ASSUME BotInv,
           \/ ServiceFails \/ ReadForReply \/ ReadPage \/ LookUpAccount
           \/ ServiceDone \/ ServiceRefuses
    PROVE  Hand(h') /\ FileHeld'
<1> USE DEF BotInv, FileHeld, Pcs
<1>0. UNCHANGED temp /\ temp = FALSE
  BY DEF ServiceFails, ReadForReply, ReadPage, LookUpAccount, ServiceDone, ServiceRefuses,
     KeepButHand, KeepButService, At
<1>1. CASE ServiceFails \/ ServiceRefuses
  <2>1. PICK text : h' = Raised(h, text)
    BY <1>1 DEF ServiceFails, ServiceRefuses, Apology
  <2>2. QED
    BY <1>0, <2>1, RaisedShape
<1>2. CASE ReadForReply
  <2>1. Hand(h') /\ h'.pc = "reply" /\ h'.final = h.final /\ h'.effect = h.effect
        /\ h'.deleted = h.deleted
    BY <1>2 DEF ReadForReply, Says, Hand
  <2>2. QED
    BY <1>0, <2>1
<1>3. CASE ReadPage
  <2>1. PICK shown : h' = [h EXCEPT !.pc = "reply", !.text = "page", !.shown = shown]
    BY <1>3 DEF ReadPage
  <2>2. Hand(h') /\ h'.pc = "reply" /\ h'.final = h.final /\ h'.effect = h.effect
        /\ h'.deleted = h.deleted
    BY <2>1 DEF Hand
  <2>3. QED
    BY <1>0, <2>2
<1>4. CASE LookUpAccount
  <2>1. PICK already : h' = [h EXCEPT !.pc = "service", !.already = already]
    BY <1>4 DEF LookUpAccount
  <2>2. Hand(h') /\ h'.pc = "service" /\ h'.final = h.final /\ h'.effect = h.effect
        /\ h'.deleted = h.deleted
    BY <2>1 DEF Hand
  <2>3. QED
    BY <1>0, <2>2
<1>5. CASE ServiceDone
  <2>1. PICK text : h' = [h EXCEPT !.pc = "reply", !.text = text, !.effect = TRUE]
    BY <1>5 DEF ServiceDone
  <2>2. Hand(h') /\ h'.pc = "reply" /\ h'.final = h.final /\ h'.effect = TRUE
        /\ h'.deleted = h.deleted
    BY <2>1 DEF Hand
  <2>3. QED
    BY <1>0, <2>2
<1>6. QED
  BY <1>1, <1>2, <1>3, <1>4, <1>5

LEMMA Uploading ==
    ASSUME BotInv,
           \/ TooLargeByMetadata \/ GetFile \/ Downloaded \/ UploadFails
           \/ CookieRefused \/ CookieStored \/ MessageDeleted \/ DeleteFails
    PROVE  Hand(h') /\ FileHeld'
<1> USE DEF BotInv, FileHeld, Pcs
<1>1. CASE TooLargeByMetadata
  <2>1. Hand(h') /\ h'.pc = "reply" /\ h'.final = h.final /\ h'.effect = h.effect
        /\ h'.deleted = h.deleted
    BY <1>1 DEF TooLargeByMetadata, Says, Hand
  <2>2. QED
    BY <1>1, <2>1 DEF TooLargeByMetadata, At
<1>2. CASE GetFile
  <2>1. Hand(h') /\ h'.pc = "download" /\ h'.final = h.final /\ h'.effect = h.effect
        /\ h'.deleted = h.deleted
    BY <1>2 DEF GetFile, To, Hand
  <2>2. QED
    BY <1>2, <2>1 DEF GetFile, At
<1>3. CASE Downloaded
  <2>1. Hand(h') /\ h'.pc \in {"store", "reply"} /\ h'.final = h.final
        /\ h'.effect = h.effect /\ h'.deleted = h.deleted
    <3>1. CASE To("store")
      BY <3>1 DEF To, Hand
    <3>2. CASE Says("too large")
      BY <3>2 DEF Says, Hand
    <3>3. QED
      BY <1>3, <3>1, <3>2 DEF Downloaded
  <2>2. QED
    BY <1>3, <2>1 DEF Downloaded, At
<1>4. CASE UploadFails \/ CookieRefused
  <2>1. PICK x \in {h, Faulty}, text \in {"internal", "refused"} : h' = Raised(x, text)
    BY <1>4 DEF UploadFails, CookieRefused, Apology
  <2>2. Hand(x) /\ x.final = h.final /\ x.effect = h.effect /\ x.deleted = h.deleted
    BY DEF Hand, Faulty
  <2>3. temp' = FALSE
    BY <1>4 DEF UploadFails, CookieRefused
  <2>4. QED
    BY <2>1, <2>2, <2>3, RaisedShape
<1>5. CASE CookieStored
  <2>1. Hand(h') /\ h'.pc = "delete" /\ h'.final = h.final /\ h'.effect = TRUE
        /\ h'.deleted = h.deleted
    BY <1>5 DEF CookieStored, Hand
  <2>2. QED
    BY <1>5, <2>1 DEF CookieStored
<1>6. CASE MessageDeleted
  <2>1. Hand(h') /\ h'.pc = "reply" /\ h'.final = h.final /\ h'.effect = h.effect
    BY <1>6 DEF MessageDeleted, Hand
  <2>2. QED
    BY <1>6, <2>1 DEF MessageDeleted, At
<1>7. CASE DeleteFails
  <2>1. PICK gone \in BOOLEAN :
          h' = [h EXCEPT !.pc = "reply", !.text = "done", !.deleted = gone, !.faulty = TRUE]
    BY <1>7 DEF DeleteFails
  <2>2. Hand(h') /\ h'.pc = "reply" /\ h'.final = h.final /\ h'.effect = h.effect
    BY <2>1 DEF Hand
  <2>3. QED
    BY <1>7, <2>2 DEF DeleteFails, At
<1>8. QED
  BY <1>1, <1>2, <1>3, <1>4, <1>5, <1>6, <1>7

LEMMA Answering ==
    ASSUME BotInv, Answers \/ AnswerFails
    PROVE  Hand(h') /\ FileHeld'
<1> USE DEF BotInv, FileHeld, Pcs
<1>0. UNCHANGED temp /\ temp = FALSE
  BY DEF Answers, AnswerFails, KeepButHand, At
<1>1. CASE Answers
  <2> DEFINE pc == CASE h.final -> "done"
                     [] ~h.final /\ h.verdict # "allowed" -> "reply"
                     [] ~h.final /\ h.verdict = "allowed" /\ ~h.fresh -> "done"
                     [] OTHER -> "read"
  <2>1. pc \in {"done", "reply", "read"}
    OBVIOUS
  <2>2. h' = [h EXCEPT !.answers = @ + 1, !.answered = TRUE, !.pc = pc]
    BY <1>1 DEF Answers
  <2>3. Hand(h') /\ h'.pc = pc /\ h'.final = h.final /\ h'.effect = h.effect
        /\ h'.deleted = h.deleted
    <3> HIDE DEF pc
    <3> QED BY <2>2 DEF Hand
  <2>4. QED
    <3> HIDE DEF pc
    <3> QED BY <1>0, <2>1, <2>3
<1>2. CASE AnswerFails
  <2>0. PICK n \in {0, 1} : h' = Raised([Faulty EXCEPT !.answers = @ + n], "internal")
    BY <1>2 DEF AnswerFails, Apology
  <2>1. PICK x \in {[Faulty EXCEPT !.answers = @ + n]} : h' = Raised(x, "internal")
    BY <2>0
  <2>2. PICK y \in {Faulty} : x = [y EXCEPT !.answers = y.answers + n]
    BY <2>1
  <2>3. Hand(y) /\ y.final = h.final /\ y.effect = h.effect /\ y.deleted = h.deleted
    BY <2>2 DEF Hand, Faulty
  <2>4. Hand(x) /\ x.final = h.final /\ x.effect = h.effect /\ x.deleted = h.deleted
    BY <2>2, <2>3, AnswersShape
  <2>5. QED
    BY <1>0, <2>1, <2>4, RaisedShape
<1>3. QED
  BY <1>1, <1>2

LEMMA Ending ==
    ASSUME BotInv, Finish \/ Cancelled \/ Tick
    PROVE  Hand(h') /\ FileHeld'
<1> USE DEF BotInv, FileHeld, Pcs
<1>1. CASE Finish
  BY <1>1 DEF Finish, At, KeepButHand, Idle, Hand
<1>2. CASE Cancelled
  <2>1. Hand(h') /\ h'.pc = "done" /\ h'.final = h.final /\ h'.effect = h.effect
        /\ h'.deleted = h.deleted
    BY <1>2 DEF Cancelled, Hand
  <2>2. QED
    BY <1>2, <2>1 DEF Cancelled
<1>3. CASE Tick
  <2>1. Hand(h') /\ h'.pc = h.pc /\ h'.final = h.final /\ h'.effect = h.effect
        /\ h'.deleted = h.deleted
    BY <1>3 DEF Tick, Hand
  <2>2. QED
    BY <1>3, <2>1 DEF Tick
<1>4. QED
  BY <1>1, <1>2, <1>3

(***************************************************************************)
(* The invariant, and what follows from it.                                *)
(***************************************************************************)
LEMMA IdleShape == Fresh(Idle) /\ Idle.forward = FALSE /\ Idle.shown = NoPage
BY DEF Idle, Fresh, Hand

(* What an update is about: an account, or a page of the list.             *)
Aimed(work, x) ==
    /\ x.shown = NoPage
    /\ work = "add" => x.target \in Accounts
    /\ work = "list" => x.target = 0 /\ ~x.forward
    /\ x.forward => x.target = screen.page + 1 /\ x.target < screen.total
    /\ work = "page" => x.target \in Nat \/ x.target = screen.page + 1

LEMMA Starting ==
    ASSUME Updates
    PROVE  \E work, c, next : /\ work \in Works /\ c \in Caller /\ Fresh(next)
                              /\ Aimed(work, next) /\ Takes(work, c, next)
<1>1. PICK x \in {Idle} : Fresh(x) /\ x.forward = FALSE /\ x.shown = NoPage
  BY IdleShape
<1>2. CASE \E work \in Works, c \in Caller, a \in Accounts : Command(work, c, a)
  <2>1. PICK work \in Works, c \in Caller, a \in Accounts : Command(work, c, a)
    BY <1>2
  <2>2. PICK target \in {IF work \in Changes THEN a ELSE 0} :
          Takes(work, c, [x EXCEPT !.target = target])
    BY <2>1, <1>1 DEF Command, Fresh, Hand
  <2>3. PICK next \in {[x EXCEPT !.target = target]} : Takes(work, c, next)
    BY <2>2
  <2>4. Fresh(next) /\ Aimed(work, next)
    BY <1>1, <2>2, <2>3 DEF Fresh, Hand, Aimed, Changes
  <2>5. QED
    BY <2>3, <2>4
<1>3. CASE \E c \in Caller : PressNext(c)
  <2>1. PICK c \in Caller : PressNext(c)
    BY <1>3
  <2>2. PICK target \in {screen.page + 1}, forward \in {TRUE}, fresh \in {screen.age <= Ttl} :
          /\ target < screen.total
          /\ Takes("page", c, [x EXCEPT !.target = target, !.forward = forward, !.fresh = fresh])
    BY <2>1, <1>1 DEF PressNext
  <2>3. PICK next \in {[x EXCEPT !.target = target, !.forward = forward, !.fresh = fresh]} :
          Takes("page", c, next)
    BY <2>2
  <2>4. Fresh(next) /\ Aimed("page", next)
    BY <1>1, <2>2, <2>3 DEF Fresh, Hand, Aimed
  <2>5. QED
    BY <2>3, <2>4 DEF Works
<1>4. CASE \E c \in Caller, page \in 0..(Cardinality(Accounts) \div PageSize), fresh \in BOOLEAN :
             PressOld(c, page, fresh)
  <2>1. PICK c \in Caller, page \in 0..(Cardinality(Accounts) \div PageSize),
             fresh \in BOOLEAN : PressOld(c, page, fresh)
    BY <1>4
  <2>2. PICK next \in {[x EXCEPT !.target = page, !.fresh = fresh]} : Takes("page", c, next)
    BY <2>1, <1>1 DEF PressOld
  <2>3. Fresh(next) /\ Aimed("page", next)
    <3>1. page \in Nat
      BY BotAssumption, FS_CardinalityType
    <3>2. QED
      BY <1>1, <2>2, <3>1 DEF Fresh, Hand, Aimed
  <2>4. QED
    BY <2>2, <2>3 DEF Works
<1>5. QED
  BY <1>2, <1>3, <1>4 DEF Updates

LEMMA BotInvInitially == Init => BotInv
<1> SUFFICES ASSUME Init PROVE BotInv
  OBVIOUS
<1>1. Hand(h)
  BY DEF Init, Idle, Hand
<1>2. FileHeld
  BY DEF Init, Idle, FileHeld, Pcs
<1>3. AgesAgree
  BY BotAssumption DEF Init, AgesAgree
<1>4. QED
  BY <1>1, <1>2, <1>3 DEF BotInv

LEMMA BotInvKept == BotInv /\ [Next]_vars => BotInv'
<1> SUFFICES ASSUME BotInv, [Next]_vars PROVE Hand(h') /\ FileHeld'
  BY AgesKept DEF BotInv
<1>1. CASE Updates
  <2>1. PICK work, c, next :
         /\ work \in Works /\ c \in Caller /\ Fresh(next) /\ Takes(work, c, next)
    BY <1>1, Starting
  <2>2. QED
    BY <2>1, Arrival DEF FileHeld, Fresh, Pcs
<1>2. CASE Handling
  BY <1>2, Sending, Serving, Uploading, Answering, Ending DEF Handling
<1>3. CASE Cancelled \/ Tick
  BY <1>3, Ending
<1>4. CASE Elsewhere \/ UNCHANGED vars
  <2>1. h' = h /\ temp' = temp
    BY <1>4 DEF Elsewhere, vars
  <2>2. QED
    BY <2>1 DEF BotInv, Hand, FileHeld
<1>5. QED
  BY <1>1, <1>2, <1>3, <1>4 DEF Next

(***************************************************************************)
(* No cookie file outlives its handler (bot/dispatcher.py:591), and        *)
(* the message that carried it is only deleted once the cookie is stored.  *)
(***************************************************************************)
THEOREM CookieFilesHandled == Spec => []CookieFileHandled
<1>1. BotInv => CookieFileHandled
  BY DEF BotInv, FileHeld, CookieFileHandled
<1>2. QED
  BY BotInvInitially, BotInvKept, <1>1, PTL DEF Spec

(***************************************************************************)
(* The throttle is that of the authorized callers (bot/security.py:101).   *)
(***************************************************************************)
THEOREM ThrottleBelongsToAllowed == Spec => ThrottleIsTheirs
<1> DEFINE Step == At("idle") /\ ~At("idle")' =>
                     /\ h'.verdict = "throttled" => accepted < Throttle
                     /\ h'.verdict = "allowed" => accepted = Throttle
<1>1. ASSUME BotInv, [Next]_vars PROVE Step
  <2> SUFFICES ASSUME h.pc = "idle", h'.pc # "idle"
               PROVE  /\ h'.verdict = "throttled" => accepted < Throttle
                      /\ h'.verdict = "allowed" => accepted = Throttle
    BY DEF At
  <2>1. ASSUME Updates
        PROVE  /\ h'.verdict = "throttled" => accepted < Throttle
               /\ h'.verdict = "allowed" => accepted = Throttle
    <3>1. PICK work, c, next :
           /\ work \in Works /\ c \in Caller /\ Fresh(next) /\ Takes(work, c, next)
      BY <2>1, Starting
    <3>2. h'.verdict = Check(c).verdict
      BY <1>1, <3>1, Arrival
    <3>3. /\ Check(c).verdict = "throttled" => last < Throttle
          /\ Check(c).verdict = "allowed" => ~(last < Throttle)
      BY DEF Check
    <3>4. last = accepted /\ accepted \in 0..Throttle /\ Throttle \in Nat
      BY <1>1, BotAssumption DEF BotInv, AgesAgree
    <3>5. QED
      BY <3>2, <3>3, <3>4
  <2>2. ~Handling
    BY DEF Handling, Delivered, MarkupRejected, SendFails, ServiceFails, ReadForReply,
       ReadPage, LookUpAccount, ServiceDone, ServiceRefuses, TooLargeByMetadata, GetFile,
       Downloaded, UploadFails, CookieRefused, CookieStored, MessageDeleted, DeleteFails,
       Answers, AnswerFails, Finish, At
  <2>3. ~Cancelled /\ ~Elsewhere /\ ~UNCHANGED vars
    BY DEF Cancelled, Elsewhere, vars
  <2>4. ~Tick
    <3>1. SUFFICES ASSUME Tick PROVE FALSE
      OBVIOUS
    <3>2. h'.pc = h.pc
      BY <1>1, <3>1 DEF Tick, BotInv, Hand
    <3>3. QED
      BY <3>2
  <2>5. QED
    BY <1>1, <2>1, <2>2, <2>3, <2>4 DEF Next
<1>2. QED
  BY BotInvInitially, BotInvKept, <1>1, PTL DEF Spec, ThrottleIsTheirs

(***************************************************************************)
(* What a reply says, what has been said, and what had happened by then.   *)
(* A change is made, and a reply chosen, before anything is said.          *)
(***************************************************************************)
Texts == {"none", "info", "page", "too large", "done", "already", "refused", "internal",
          "denied", "burst", "throttled"}

Truthful(x, text) ==
    /\ text \in {"done", "already"} => x.effect
    /\ text = "refused" => ~x.effect
    /\ text = "internal" => ~x.effect \/ x.faulty

Silent(x) == x.sent = <<>>

Known(x) ==
    /\ x.effect \in BOOLEAN /\ x.faulty \in BOOLEAN /\ x.final \in BOOLEAN
    /\ x.text \in Texts /\ x.sent \in Seq(Texts)
    /\ \A k \in DOMAIN x.sent : Truthful(x, x.sent[k])

Reports(x) ==
    /\ Known(x)
    /\ x.pc \in {"read", "look", "service", "get", "download", "store"} => Silent(x) /\ ~x.effect
    /\ x.pc = "answer" /\ ~x.final => Silent(x) /\ ~x.effect /\ Truthful(x, x.text)
    /\ x.pc = "delete" => Silent(x) /\ x.effect
    /\ x.pc \in {"reply", "plain"} => Truthful(x, x.text)

LEMMA NothingSaid ==
    ASSUME NEW x, x.effect = FALSE, x.faulty = FALSE, x.final = FALSE, x.text \in Texts,
           x.sent = <<>>
    PROVE  Known(x)
<1>1. x.sent \in Seq(Texts) /\ DOMAIN x.sent = {}
  OBVIOUS
<1>2. QED
  BY <1>1 DEF Known

LEMMA RaisedReports ==
    ASSUME NEW x, Hand(x), Known(x), NEW text \in Texts, Truthful(x, text)
    PROVE  Reports(Raised(x, text))
<1> DEFINE y == Raised(x, text)
<1>1. /\ y.pc \in {"done", "answer", "reply"} /\ y.final = TRUE
      /\ y.effect = x.effect
  BY RaisedShape DEF Known
<1>2. y.faulty = x.faulty /\ y.sent = x.sent /\ y.text \in {x.text, text}
      /\ (y.pc = "reply" => y.text = text)
  BY DEF Raised, Hand
<1>3. QED
  <2> HIDE DEF y
  <2>1. \A s : Truthful(x, s) => Truthful(y, s)
    BY <1>1, <1>2 DEF Truthful
  <2>2. Known(y)
    BY <1>1, <1>2, <2>1 DEF Known
  <2>3. Reports(y)
    BY <1>1, <1>2, <2>1, <2>2 DEF Reports
  <2>4. QED
    BY <2>3 DEF y

(* A step that says nothing.                                               *)
LEMMA QuietReports ==
    ASSUME NEW x, NEW y, Known(x), Silent(x), y.sent = x.sent, y.final = x.final,
           y.effect \in BOOLEAN, y.faulty \in BOOLEAN, y.text \in Texts,
           \/ /\ y.pc \in {"read", "look", "service", "get", "download", "store"}
              /\ ~y.effect
           \/ y.pc = "delete" /\ y.effect
           \/ y.pc = "reply" /\ Truthful(y, y.text)
           \/ y.pc = "done"
    PROVE  Reports(y)
<1>1. Known(y)
  BY DEF Silent, Known
<1>2. QED
  BY <1>1 DEF Reports, Silent

LEMMA SendingReports ==
    ASSUME Hand(h), Reports(h), Delivered \/ MarkupRejected \/ SendFails
    PROVE  Reports(h')
<1>0. h.pc \in {"reply", "plain"} /\ h.text \in Texts /\ Truthful(h, h.text) /\ Known(h)
  BY DEF Delivered, MarkupRejected, SendFails, At, Reports, Known
<1>1. ASSUME NEW x, Hand(x), x.sent = h.sent, x.effect = h.effect, x.text = h.text,
             x.final = h.final, x.faulty = h.faulty \/ x.faulty = TRUE,
             NEW y \in {x, Reaches(x)}
      PROVE  Hand(y) /\ Known(y) /\ y.effect = x.effect /\ y.faulty = x.faulty
  <2>1. Hand(y) /\ y.effect = x.effect /\ y.faulty = x.faulty /\ y.final = x.final
        /\ y.text = x.text /\ y.sent \in {h.sent, Append(h.sent, h.text)}
    BY <1>1 DEF Hand, Reaches
  <2>2. \A s : Truthful(h, s) => Truthful(y, s)
    BY <1>0, <1>1, <2>1 DEF Truthful, Known
  <2>3. h.sent \in Seq(Texts) /\ \A k \in DOMAIN h.sent : Truthful(h, h.sent[k])
    BY <1>0 DEF Known
  <2>7. /\ y.effect \in BOOLEAN /\ y.faulty \in BOOLEAN /\ y.final \in BOOLEAN
        /\ y.text \in Texts
    BY <1>0, <1>1, <2>1 DEF Known
  <2>4. CASE y.sent = h.sent
    BY <2>1, <2>2, <2>3, <2>4, <2>7 DEF Known
  <2>5. CASE y.sent = Append(h.sent, h.text)
    <3>1. y.sent \in Seq(Texts)
      BY <1>0, <2>3, <2>5
    <3>2. ASSUME NEW k \in DOMAIN y.sent
          PROVE  y.sent[k] = h.text \/ (k \in DOMAIN h.sent /\ y.sent[k] = h.sent[k])
      BY <1>0, <2>3, <2>5, <3>2
    <3>3. \A k \in DOMAIN y.sent : Truthful(y, y.sent[k])
      BY <1>0, <2>2, <2>3, <3>2
    <3>4. QED
      BY <2>1, <2>7, <3>1, <3>3 DEF Known
  <2>6. QED
    BY <2>1, <2>4, <2>5
<1>2. CASE Delivered
  <2>1. PICK y \in {h, Reaches(h)} : h' = [y EXCEPT !.pc = "done"]
    BY <1>2 DEF Delivered
  <2>2. Hand(y) /\ Known(y)
    BY <1>1
  <2>3. /\ h'.pc = "done" /\ h'.effect = y.effect /\ h'.faulty = y.faulty
        /\ h'.final = y.final /\ h'.text = y.text /\ h'.sent = y.sent
    BY <2>1, <2>2 DEF Hand
  <2>4. QED
    BY <2>2, <2>3 DEF Reports, Known, Truthful
<1>3. CASE MarkupRejected
  <2>1. /\ h'.pc = "plain" /\ h'.effect = h.effect /\ h'.faulty = h.faulty
        /\ h'.final = h.final /\ h'.text = h.text /\ h'.sent = h.sent
    BY <1>3 DEF MarkupRejected, To, Hand
  <2>2. QED
    BY <1>0, <2>1 DEF Reports, Known, Truthful
<1>4. CASE SendFails
  <2>1. PICK x \in {Faulty} : \E y \in {x, Reaches(x)} : h' = Apology(y)
    BY <1>4 DEF SendFails
  <2>2. PICK y \in {x, Reaches(x)} : h' = Apology(y)
    BY <2>1
  <2>3. /\ Hand(x) /\ x.sent = h.sent /\ x.effect = h.effect /\ x.text = h.text
        /\ x.final = h.final /\ x.faulty = TRUE
    BY <2>1 DEF Hand, Faulty
  <2>4. Hand(y) /\ Known(y) /\ y.effect = x.effect /\ y.faulty = x.faulty
    BY <1>1, <2>2, <2>3
  <2>5. Truthful(y, "internal")
    BY <2>3, <2>4 DEF Truthful
  <2>6. Reports(Raised(y, "internal"))
    BY <2>4, <2>5, RaisedReports DEF Texts
  <2>7. QED
    BY <2>2, <2>6 DEF Apology
<1>5. QED
  BY <1>2, <1>3, <1>4

LEMMA ServingReports ==
    ASSUME Hand(h), Reports(h),
           \/ ServiceFails \/ ReadForReply \/ ReadPage \/ LookUpAccount
           \/ ServiceDone \/ ServiceRefuses
    PROVE  Reports(h')
<1>0. /\ Known(h) /\ Silent(h) /\ ~h.effect
      /\ h.effect \in BOOLEAN /\ h.faulty \in BOOLEAN /\ h.text \in Texts
  BY DEF Reports, Known, ServiceFails, ReadForReply, ReadPage, LookUpAccount, ServiceDone,
     ServiceRefuses, At
<1>1. CASE ServiceFails \/ ServiceRefuses
  <2>1. PICK text \in {"internal", "refused"} : h' = Raised(h, text)
    BY <1>1 DEF ServiceFails, ServiceRefuses, Apology
  <2>2. Truthful(h, text)
    BY <1>0, <2>1 DEF Truthful
  <2>3. Reports(Raised(h, text))
    BY <1>0, <2>1, <2>2, RaisedReports DEF Texts
  <2>4. QED
    BY <2>1, <2>3
<1>2. CASE ReadForReply \/ ReadPage
  <2>1. PICK text \in {"info", "page"} : \E shown :
          h' = [h EXCEPT !.pc = "reply", !.text = text, !.shown = shown]
    <3>1. CASE ReadForReply
      <4>1. h' = [h EXCEPT !.pc = "reply", !.text = "info", !.shown = h.shown]
        BY <3>1 DEF ReadForReply, Says, Hand
      <4>2. QED
        BY <4>1
    <3>2. CASE ReadPage
      BY <3>2 DEF ReadPage
    <3>3. QED
      BY <1>2, <3>1, <3>2
  <2>2. PICK shown : h' = [h EXCEPT !.pc = "reply", !.text = text, !.shown = shown]
    BY <2>1
  <2>3. /\ Hand(h') /\ h'.pc = "reply" /\ h'.text = text /\ h'.sent = h.sent
        /\ h'.final = h.final /\ h'.effect = h.effect /\ h'.faulty = h.faulty
    BY <2>2 DEF Hand
  <2>4. Truthful(h', h'.text)
    BY <2>1, <2>3 DEF Truthful
  <2>5. QED
    BY <1>0, <2>1, <2>3, <2>4, QuietReports DEF Texts
<1>3. CASE LookUpAccount
  <2>1. PICK already : h' = [h EXCEPT !.pc = "service", !.already = already]
    BY <1>3 DEF LookUpAccount
  <2>2. /\ Hand(h') /\ h'.pc = "service" /\ h'.text = h.text /\ h'.sent = h.sent
        /\ h'.final = h.final /\ h'.effect = h.effect /\ h'.faulty = h.faulty
    BY <2>1 DEF Hand
  <2>3. QED
    BY <1>0, <2>2, QuietReports
<1>4. CASE ServiceDone
  <2>1. PICK text \in {"done", "already"} :
          h' = [h EXCEPT !.pc = "reply", !.text = text, !.effect = TRUE]
    BY <1>4 DEF ServiceDone
  <2>2. /\ Hand(h') /\ h'.pc = "reply" /\ h'.text = text /\ h'.sent = h.sent
        /\ h'.final = h.final /\ h'.effect = TRUE /\ h'.faulty = h.faulty
    BY <2>1 DEF Hand
  <2>3. Truthful(h', h'.text)
    BY <2>1, <2>2 DEF Truthful
  <2>4. QED
    BY <1>0, <2>1, <2>2, <2>3, QuietReports DEF Texts
<1>5. QED
  BY <1>1, <1>2, <1>3, <1>4

LEMMA UploadingReports ==
    ASSUME Hand(h), Reports(h),
           \/ TooLargeByMetadata \/ GetFile \/ Downloaded \/ UploadFails
           \/ CookieRefused \/ CookieStored \/ MessageDeleted \/ DeleteFails
    PROVE  Reports(h')
<1>0. /\ Known(h) /\ Silent(h)
      /\ h.effect \in BOOLEAN /\ h.faulty \in BOOLEAN /\ h.text \in Texts
  BY DEF Reports, Known, TooLargeByMetadata, GetFile, Downloaded, UploadFails, CookieRefused,
     CookieStored, MessageDeleted, DeleteFails, At
<1>1. CASE TooLargeByMetadata \/ (Downloaded /\ Says("too large"))
  <2>0. ~h.effect
    BY <1>1 DEF Reports, TooLargeByMetadata, Downloaded, At
  <2>1. /\ Hand(h') /\ h'.pc = "reply" /\ h'.text = "too large" /\ h'.sent = h.sent
        /\ h'.final = h.final /\ h'.effect = h.effect /\ h'.faulty = h.faulty
    BY <1>1 DEF TooLargeByMetadata, Says, Hand
  <2>2. Truthful(h', h'.text)
    BY <2>1 DEF Truthful
  <2>3. QED
    BY <1>0, <2>1, <2>2, QuietReports DEF Texts
<1>2. CASE GetFile \/ (Downloaded /\ To("store"))
  <2>0. ~h.effect
    BY <1>2 DEF Reports, GetFile, Downloaded, At
  <2>1. /\ Hand(h') /\ h'.pc \in {"download", "store"} /\ h'.text = h.text
        /\ h'.sent = h.sent /\ h'.final = h.final /\ h'.effect = h.effect
        /\ h'.faulty = h.faulty
    BY <1>2 DEF GetFile, To, Hand
  <2>2. QED
    BY <1>0, <2>0, <2>1, QuietReports
<1>3. CASE UploadFails \/ CookieRefused
  <2>0. ~h.effect
    BY <1>3 DEF Reports, UploadFails, CookieRefused, At
  <2>1. PICK x \in {h, Faulty}, text \in {"internal", "refused"} : h' = Raised(x, text)
    BY <1>3 DEF UploadFails, CookieRefused, Apology
  <2>2. /\ Hand(x) /\ x.sent = h.sent /\ x.effect = h.effect /\ x.final = h.final
        /\ x.faulty \in BOOLEAN /\ x.text = h.text
    BY <1>0 DEF Hand, Faulty
  <2>3. Truthful(x, text) /\ Known(x)
    BY <1>0, <2>0, <2>1, <2>2 DEF Truthful, Known
  <2>4. Reports(Raised(x, text))
    BY <1>0, <2>1, <2>2, <2>3, RaisedReports DEF Texts
  <2>5. QED
    BY <2>1, <2>4
<1>4. CASE CookieStored
  <2>1. /\ Hand(h') /\ h'.pc = "delete" /\ h'.text = h.text /\ h'.sent = h.sent
        /\ h'.final = h.final /\ h'.effect = TRUE /\ h'.faulty = h.faulty
    BY <1>4 DEF CookieStored, Hand
  <2>2. QED
    BY <1>0, <2>1, QuietReports
<1>5. CASE MessageDeleted \/ DeleteFails
  <2>0. h.effect
    BY <1>5 DEF Reports, MessageDeleted, DeleteFails, At
  <2>1. PICK gone \in BOOLEAN, faulty \in BOOLEAN :
          h' = [h EXCEPT !.pc = "reply", !.text = "done", !.deleted = gone, !.faulty = faulty]
    <3>1. CASE MessageDeleted
      <4>1. h' = [h EXCEPT !.pc = "reply", !.text = "done", !.deleted = TRUE,
                           !.faulty = h.faulty]
        BY <3>1 DEF MessageDeleted, Hand
      <4>2. QED
        BY <1>0, <4>1
    <3>2. CASE DeleteFails
      BY <3>2 DEF DeleteFails
    <3>3. QED
      BY <1>5, <3>1, <3>2
  <2>2. /\ Hand(h') /\ h'.pc = "reply" /\ h'.text = "done" /\ h'.sent = h.sent
        /\ h'.final = h.final /\ h'.effect = h.effect /\ h'.faulty = faulty
    BY <2>1 DEF Hand
  <2>3. Truthful(h', h'.text)
    BY <2>0, <2>2 DEF Truthful
  <2>4. QED
    BY <1>0, <2>1, <2>2, <2>3, QuietReports DEF Texts
<1>6. QED
  BY <1>1, <1>2, <1>3, <1>4, <1>5 DEF Downloaded

LEMMA AnsweringReports ==
    ASSUME Hand(h), Reports(h), Answers \/ AnswerFails
    PROVE  Reports(h')
<1>0. /\ Known(h)
      /\ h.effect \in BOOLEAN /\ h.faulty \in BOOLEAN /\ h.final \in BOOLEAN
      /\ h.text \in Texts
      /\ ~h.final => Silent(h) /\ ~h.effect /\ Truthful(h, h.text)
  BY DEF Reports, Known, Answers, AnswerFails, At
<1>1. CASE Answers
  <2> DEFINE pc == CASE h.final -> "done"
                     [] ~h.final /\ h.verdict # "allowed" -> "reply"
                     [] ~h.final /\ h.verdict = "allowed" /\ ~h.fresh -> "done"
                     [] OTHER -> "read"
  <2>1. pc = "done" \/ (~h.final /\ pc \in {"reply", "read"})
    BY <1>0
  <2>2. h' = [h EXCEPT !.answers = @ + 1, !.answered = TRUE, !.pc = pc]
    BY <1>1 DEF Answers
  <2>3. /\ Hand(h') /\ h'.pc = pc /\ h'.text = h.text /\ h'.sent = h.sent
        /\ h'.final = h.final /\ h'.effect = h.effect /\ h'.faulty = h.faulty
    <3> HIDE DEF pc
    <3> QED BY <2>2 DEF Hand
  <2> HIDE DEF pc
  <2>4. CASE pc = "done"
    BY <1>0, <2>3, <2>4 DEF Reports, Known, Truthful
  <2>5. CASE ~h.final /\ pc \in {"reply", "read"}
    <3>1. Truthful(h', h'.text)
      BY <1>0, <2>3, <2>5 DEF Truthful
    <3>2. QED
      BY <1>0, <2>3, <2>5, <3>1, QuietReports
  <2>6. QED
    BY <2>1, <2>4, <2>5
<1>2. CASE AnswerFails
  <2>0. PICK n \in {0, 1} : h' = Raised([Faulty EXCEPT !.answers = @ + n], "internal")
    BY <1>2 DEF AnswerFails, Apology
  <2>1. PICK x \in {[Faulty EXCEPT !.answers = @ + n]} : h' = Raised(x, "internal")
    BY <2>0
  <2>2. PICK y \in {Faulty} : \E m : x = [y EXCEPT !.answers = m]
    BY <2>1
  <2>3. /\ Hand(y) /\ y.sent = h.sent /\ y.effect = h.effect /\ y.final = h.final
        /\ y.text = h.text /\ y.faulty = TRUE
    BY <2>2 DEF Hand, Faulty
  <2>4. /\ Hand(x) /\ x.sent = h.sent /\ x.effect = h.effect /\ x.final = h.final
        /\ x.text = h.text /\ x.faulty = TRUE
    BY <2>2, <2>3 DEF Hand
  <2>5. Truthful(x, "internal") /\ Known(x)
    BY <1>0, <2>4 DEF Truthful, Known
  <2>6. Reports(Raised(x, "internal"))
    BY <1>0, <2>4, <2>5, RaisedReports DEF Texts
  <2>7. QED
    BY <2>1, <2>6
<1>3. QED
  BY <1>1, <1>2

LEMMA EndingReports ==
    ASSUME Hand(h), Reports(h), Finish \/ Cancelled \/ Tick
    PROVE  Reports(h')
<1>1. CASE Finish
  <2>1. /\ h'.pc = "idle" /\ h'.text = "none" /\ h'.sent = <<>> /\ h'.final = FALSE
        /\ h'.effect = FALSE /\ h'.faulty = FALSE
    BY <1>1 DEF Finish, Idle
  <2>2. Known(h')
    BY <2>1, NothingSaid DEF Texts
  <2>3. QED
    BY <2>1, <2>2 DEF Reports
<1>2. CASE Cancelled
  <2>1. /\ h'.pc = "done" /\ h'.text = h.text /\ h'.sent = h.sent
        /\ h'.final = h.final /\ h'.effect = h.effect /\ h'.faulty = h.faulty
    BY <1>2 DEF Cancelled, Hand
  <2>2. QED
    BY <2>1 DEF Reports, Known, Truthful
<1>3. CASE Tick
  <2>1. /\ h'.pc = h.pc /\ h'.text = h.text /\ h'.sent = h.sent
        /\ h'.final = h.final /\ h'.effect = h.effect /\ h'.faulty = h.faulty
    BY <1>3 DEF Tick, Hand
  <2>2. QED
    BY <2>1 DEF Reports, Known, Truthful, Silent
<1>4. QED
  BY <1>1, <1>2, <1>3

LEMMA StartingReports ==
    ASSUME BotInv, Updates
    PROVE  Reports(h')
<1>1. PICK work, c, next :
       /\ work \in Works /\ c \in Caller /\ Fresh(next) /\ Takes(work, c, next)
  BY Starting
<1>2. /\ Fresh(h') /\ h'.pc \in {"reply", "read", "look", "service", "get", "answer"}
      /\ h'.text \in {"info", "denied", "burst", "throttled"}
  BY <1>1, Arrival
<1>3. Silent(h') /\ ~h'.effect /\ Truthful(h', h'.text)
  BY <1>2 DEF Fresh, Silent, Truthful
<1>4. Known(h')
  BY <1>2, <1>3, NothingSaid DEF Fresh, Texts
<1>5. QED
  BY <1>2, <1>3, <1>4 DEF Reports

LEMMA ReportsInitially == Init => Reports(h)
<1> SUFFICES ASSUME Init PROVE Reports(h)
  OBVIOUS
<1>1. /\ h.pc = "idle" /\ h.text = "none" /\ h.sent = <<>> /\ h.final = FALSE
      /\ h.effect = FALSE /\ h.faulty = FALSE
  BY DEF Init, Idle
<1>2. Known(h)
  BY <1>1, NothingSaid DEF Texts
<1>3. QED
  BY <1>1, <1>2 DEF Reports

LEMMA ReportsKept == BotInv /\ Reports(h) /\ [Next]_vars => Reports(h)'
<1> SUFFICES ASSUME BotInv, Reports(h), [Next]_vars PROVE Reports(h')
  OBVIOUS
<1>1. Hand(h)
  BY DEF BotInv
<1>2. CASE Updates
  BY <1>2, StartingReports
<1>3. CASE Handling
  BY <1>1, <1>3, SendingReports, ServingReports, UploadingReports, AnsweringReports,
     EndingReports DEF Handling
<1>4. CASE Cancelled \/ Tick
  BY <1>1, <1>4, EndingReports
<1>5. CASE Elsewhere \/ UNCHANGED vars
  <2>1. h' = h
    BY <1>5 DEF Elsewhere, vars
  <2>2. QED
    BY <2>1
<1>6. QED
  BY <1>2, <1>3, <1>4, <1>5 DEF Next

(***************************************************************************)
(* What a command reports is what it did (bot/dispatcher.py:414), whatever *)
(* fails: a reply says "done" only after the change, "refused" only        *)
(* without one.                                                            *)
(***************************************************************************)
THEOREM ReportsAreTrue == Spec => []ReportIsTrue
<1>1. Reports(h) => ReportIsTrue
  BY DEF Reports, Known, Truthful, ReportIsTrue
<1>2. QED
  BY BotInvInitially, BotInvKept, ReportsInitially, ReportsKept, <1>1, PTL DEF Spec

-----------------------------------------------------------------------------
(***************************************************************************)
(* The order of the list: by id, every account once.                       *)
(***************************************************************************)
LEMMA LeastElement ==
    ASSUME NEW T \in SUBSET Nat, T # {}
    PROVE  \E x \in T : \A y \in T : x <= y
<1>1. \E R : IsWellFoundedOn(R, Nat) /\ \A x, y \in Nat : <<x, y>> \in R <=> x < y
  <2>1. PICK R \in {OpToRel(<, Nat)} : IsWellFoundedOn(R, Nat)
    BY NatLessThanWellFounded, Zenon
  <2>2. \A x, y \in Nat : <<x, y>> \in R <=> x < y
    BY <2>1, Zenon DEF OpToRel
  <2>3. QED
    BY <2>1, <2>2
<1>2. PICK R : IsWellFoundedOn(R, Nat) /\ \A x, y \in Nat : <<x, y>> \in R <=> x < y
  BY <1>1
<1>3. T \subseteq Nat /\ T # {} /\ IsWellFoundedOn(R, Nat)
  BY <1>2
<1>4. PICK x \in T : \A y \in T : ~(<<y, x>> \in R)
  BY <1>3, WFMin
<1>5. \A y \in T : y \in Nat /\ x \in Nat /\ ~(y < x)
  BY <1>2, <1>4
<1>6. QED
  BY <1>4, <1>5

Before(D, a) == {b \in D : b < a}
Rank(D, a) == Cardinality(Before(D, a))

\* An element has fewer before it than there are, and fewer than any later one.
LEMMA RankGrows ==
    ASSUME NEW D \in SUBSET Nat, IsFiniteSet(D), NEW a \in D
    PROVE  /\ Rank(D, a) \in 0..(Cardinality(D) - 1)
           /\ \A c \in D : a < c => Rank(D, a) < Rank(D, c)
           /\ IsFiniteSet(Before(D, a))
           /\ Cardinality(Before(D, a) \cup {a}) = Rank(D, a) + 1
<1>1. \A c \in D : IsFiniteSet(Before(D, c)) /\ Cardinality(Before(D, c)) \in Nat
  BY FS_Subset, FS_CardinalityType DEF Before
<1>2. a \notin Before(D, a) /\ Before(D, a) \cup {a} \subseteq D
  BY DEF Before
<1>3. Cardinality(Before(D, a) \cup {a}) = Rank(D, a) + 1
  BY <1>1, <1>2, FS_AddElement DEF Rank
<1>4. Rank(D, a) + 1 <= Cardinality(D) /\ Cardinality(D) \in Nat
  BY <1>2, <1>3, FS_Subset, FS_CardinalityType
<1>5. ASSUME NEW c \in D, a < c PROVE Rank(D, a) < Rank(D, c)
  <2>1. Before(D, a) \cup {a} \subseteq Before(D, c)
    <3>1. ASSUME NEW b \in D, b < a PROVE b < c
      <4>1. b \in Nat /\ a \in Nat /\ c \in Nat
        OBVIOUS
      <4>2. QED
        BY <1>5, <3>1, <4>1
    <3>2. QED
      BY <1>5, <3>1 DEF Before
  <2>2. Rank(D, a) + 1 <= Rank(D, c)
    BY <1>1, <1>3, <2>1, FS_Subset DEF Rank
  <2>3. QED
    BY <1>1, <2>2 DEF Rank
<1>6. QED
  BY <1>1, <1>3, <1>4, <1>5 DEF Rank

\* No place of the list is empty.
LEMMA RankTaken ==
    ASSUME NEW D \in SUBSET Nat, IsFiniteSet(D), NEW k \in 0..(Cardinality(D) - 1)
    PROVE  \E a \in D : Rank(D, a) = k
<1> DEFINE Empty == {m \in 0..(Cardinality(D) - 1) : \A a \in D : Rank(D, a) # m}
<1>0. Cardinality(D) \in Nat
  BY FS_CardinalityType
<1>1. SUFFICES ASSUME Empty # {} PROVE FALSE
  OBVIOUS
<1>2. PICK m \in Empty : \A y \in Empty : m <= y
  <2>1. Empty \in SUBSET Nat
    BY <1>0
  <2> HIDE DEF Empty
  <2>2. QED
    BY <1>1, <2>1, LeastElement
<1>3. PICK L \in SUBSET D : Cardinality(L) = m /\ \A b \in D, c \in L : b < c => b \in L
  <2>1. CASE m = 0
    BY <2>1, FS_EmptySet
  <2>2. CASE m # 0
    <3>1. m - 1 \in 0..(Cardinality(D) - 1) /\ m - 1 \notin Empty
      BY <1>0, <1>2, <2>2
    <3>2. PICK a \in D : Rank(D, a) = m - 1
      BY <3>1
    <3>3. Cardinality(Before(D, a) \cup {a}) = m
      BY <1>0, <3>1, <3>2, RankGrows
    <3>4. \A b \in D, c \in Before(D, a) \cup {a} : b < c => b \in Before(D, a) \cup {a}
      BY DEF Before
    <3>5. Before(D, a) \cup {a} \subseteq D
      BY DEF Before
    <3>6. QED
      BY <3>3, <3>4, <3>5
  <2>3. QED
    BY <2>1, <2>2
<1>4. D \ L # {}
  <2>1. Cardinality(L) # Cardinality(D)
    BY <1>0, <1>2, <1>3
  <2>2. D \ L = {} => L = D
    BY <1>3
  <2>3. QED
    BY <2>1, <2>2
<1>5. PICK b \in D \ L : \A c \in D \ L : b <= c
  <2>1. D \ L \in SUBSET Nat
    OBVIOUS
  <2>2. QED
    BY <1>4, <2>1, LeastElement
<1>6. Before(D, b) = L
  <2>1. \A c \in D : c < b => c \in L
    BY <1>5
  <2>2. \A c \in L : c < b
    <3>1. SUFFICES ASSUME NEW c \in L, ~(c < b) PROVE FALSE
      OBVIOUS
    <3>2. b < c
      BY <1>3, <1>5, <3>1
    <3>3. QED
      BY <1>3, <1>5, <3>2
  <2>3. QED
    BY <1>3, <2>1, <2>2 DEF Before
<1>7. QED
  BY <1>2, <1>3, <1>5, <1>6 DEF Rank

\* The accounts are numbers, and finitely many.
AccountsOK == DOMAIN accounts \subseteq Accounts

LEMMA SortedLists ==
    ASSUME AccountsOK
    PROVE  /\ Sorted \in Seq(DOMAIN accounts)
           /\ Len(Sorted) = Cardinality(DOMAIN accounts)
           /\ \A i, j \in DOMAIN Sorted : i < j => Sorted[i] < Sorted[j]
           /\ ToSet(Sorted) = DOMAIN accounts
<1>1. PICK D \in SUBSET Nat : D = DOMAIN accounts /\ IsFiniteSet(D)
  BY BotAssumption, FS_Subset DEF AccountsOK
<1>2. Cardinality(D) \in Nat
  BY <1>1, FS_CardinalityType
<1>3. Sorted = [i \in 1..Cardinality(D) |-> CHOOSE a \in D : Rank(D, a) = i - 1]
  BY <1>1 DEF Sorted, Rank, Before
<1>4. ASSUME NEW i \in 1..Cardinality(D)
      PROVE  Sorted[i] \in D /\ Rank(D, Sorted[i]) = i - 1
  <2>1. i - 1 \in 0..(Cardinality(D) - 1)
    BY <1>2
  <2>2. \E a \in D : Rank(D, a) = i - 1
    BY <1>1, <2>1, RankTaken
  <2>3. QED
    BY <1>3, <2>2
<1>5. /\ DOMAIN Sorted = 1..Cardinality(D) /\ Sorted \in Seq(D) /\ Len(Sorted) = Cardinality(D)
  <2>1. Sorted \in [1..Cardinality(D) -> D]
    BY <1>3, <1>4
  <2>2. QED
    BY <1>2, <2>1
<1>6. ASSUME NEW i \in DOMAIN Sorted, NEW j \in DOMAIN Sorted, i < j
      PROVE  Sorted[i] < Sorted[j]
  <2>1. /\ Sorted[i] \in D /\ Sorted[j] \in D /\ Sorted[i] \in Nat /\ Sorted[j] \in Nat
        /\ Rank(D, Sorted[i]) = i - 1 /\ Rank(D, Sorted[j]) = j - 1 /\ i \in Nat /\ j \in Nat
    BY <1>1, <1>4, <1>5
  <2>2. Sorted[i] # Sorted[j]
    BY <1>6, <2>1
  <2>3. Sorted[j] < Sorted[i] => Rank(D, Sorted[j]) < Rank(D, Sorted[i])
    BY <1>1, <2>1, RankGrows
  <2>4. QED
    BY <1>6, <2>1, <2>2, <2>3
<1>7. ASSUME NEW a \in D PROVE a \in ToSet(Sorted)
  <2>1. Rank(D, a) \in 0..(Cardinality(D) - 1)
    BY <1>1, RankGrows
  <2>2. PICK i \in 1..Cardinality(D) : i - 1 = Rank(D, a)
    BY <1>2, <2>1
  <2>3. Sorted[i] \in D /\ Rank(D, Sorted[i]) = Rank(D, a)
    BY <1>4, <2>2
  <2>4. Sorted[i] = a
    <3>1. Sorted[i] \in Nat /\ a \in Nat /\ Rank(D, a) \in Nat
      BY <1>1, <2>1, <2>3
    <3>2. Sorted[i] < a => Rank(D, Sorted[i]) < Rank(D, a)
      BY <1>1, <2>3, RankGrows
    <3>3. a < Sorted[i] => Rank(D, a) < Rank(D, Sorted[i])
      BY <1>1, <2>3, RankGrows
    <3>4. QED
      BY <2>3, <3>1, <3>2, <3>3
  <2>5. QED
    BY <1>5, <2>4 DEF ToSet
<1>8. QED
  BY <1>1, <1>4, <1>5, <1>6, <1>7 DEF ToSet

(***************************************************************************)
(* The pages: how many there are, and that they meet.                      *)
(***************************************************************************)
LEMMA MinOfTwo ==
    ASSUME NEW a \in Int, NEW b \in Int
    PROVE  Min({a, b}) = IF a <= b THEN a ELSE b
BY DEF Min

LEMMA Divided ==
    ASSUME NEW x \in Nat, NEW d \in Nat \ {0}
    PROVE  /\ x \div d \in Nat
           /\ (x \div d) * d <= x
           /\ x < (x \div d) * d + d
OBVIOUS

LEMMA Multiples ==
    ASSUME NEW p \in Nat, NEW q \in Nat, NEW d \in Nat
    PROVE  /\ p * d \in Nat
           /\ (p + 1) * d = p * d + d
           /\ p <= q => p * d <= q * d
<1>1. p * d \in Nat /\ (p + 1) * d = p * d + d
  OBVIOUS
<1>2. ASSUME p <= q PROVE p * d <= q * d
  <2>1. q - p \in Nat /\ (q - p) * d \in Nat
    BY <1>2
  <2>2. q * d = p * d + (q - p) * d
    OBVIOUS
  <2>3. q * d \in Nat
    OBVIOUS
  <2>4. QED
    BY <1>1, <2>1, <2>2, <2>3
<1>3. QED
  BY <1>1, <1>2

LEMMA PagesCover ==
    ASSUME AccountsOK
    PROVE  /\ Pages \in Nat /\ Len(Sorted) \in Nat
           /\ \A p \in Nat : p < Pages <=> p * PageSize < Len(Sorted)
<1>1. Len(Sorted) \in Nat /\ PageSize \in Nat \ {0}
  BY SortedLists, BotAssumption
<1>2. PICK x \in Nat : x = Len(Sorted) + PageSize - 1
  BY <1>1
<1>3. Pages = x \div PageSize
  BY <1>2 DEF Pages
<1>4. Pages \in Nat /\ Pages * PageSize <= x /\ x < Pages * PageSize + PageSize
  BY <1>1, <1>3, Divided
<1>5. ASSUME NEW p \in Nat PROVE p < Pages <=> p * PageSize < Len(Sorted)
  <2>1. CASE p < Pages
    <3>1. (p + 1) * PageSize <= Pages * PageSize /\ (p + 1) * PageSize = p * PageSize + PageSize
      BY <1>1, <1>4, <2>1, Multiples
    <3>2. p * PageSize \in Nat /\ Pages * PageSize \in Nat
      BY <1>1, <1>4, Multiples
    <3>3. QED
      BY <1>1, <1>2, <1>4, <2>1, <3>1, <3>2
  <2>2. CASE ~(p < Pages)
    <3>1. Pages * PageSize <= p * PageSize
      BY <1>1, <1>4, <2>2, Multiples
    <3>2. p * PageSize \in Nat /\ Pages * PageSize \in Nat
      BY <1>1, <1>4, Multiples
    <3>3. QED
      BY <1>1, <1>2, <1>4, <2>2, <3>1, <3>2
  <2>3. QED
    BY <2>1, <2>2
<1>6. QED
  BY <1>1, <1>4, <1>5

(***************************************************************************)
(* A page as it is sent, and the list on the screen once the reply in hand *)
(* has arrived.                                                            *)
(***************************************************************************)
Page(x) == x = [rows |-> x.rows, page |-> x.page, total |-> x.total, age |-> x.age]
OnScreen(x) == IF x.pc \in {"reply", "plain"} /\ x.text = "page" THEN x.shown ELSE screen

(***************************************************************************)
(* What the pages up to this one show; and that the walk, if it has not    *)
(* been given up, has shown just that.                                     *)
(***************************************************************************)
UpTo(page) == SubSeq(Sorted, 1, Min({Len(Sorted), (page + 1) * PageSize}))
Follows(p) ==
    /\ p.page \in Nat /\ p.total = Pages
    /\ p.page < Pages \/ (Pages = 0 /\ p.page = 0)
    /\ walk = UpTo(p.page)

(***************************************************************************)
(* What the update in hand is about, and that a press of "next" still      *)
(* leads from the page on the screen to the one after it.                  *)
(***************************************************************************)
Busy(x) == x.pc \notin {"idle", "reply", "plain", "done"}
Aims(x) ==
    /\ Page(x.shown)
    /\ x.work = "add" => x.target \in Accounts
    /\ x.work = "list" => x.target = 0 /\ ~x.forward
    /\ x.pc = "answer" => x.final \/ x.text # "page"
Heads(x) == Busy(x) /\ x.forward => x.target = screen.page + 1 /\ x.target < screen.total

WalkInv ==
    /\ AccountsOK /\ Page(screen) /\ Aims(h)
    /\ walk # NoWalk => Follows(OnScreen(h)) /\ Heads(h)

LEMMA SameList ==
    ASSUME UNCHANGED accounts
    PROVE  /\ Sorted' = Sorted /\ Pages' = Pages
           /\ (AccountsOK => AccountsOK')
BY DEF Sorted, Pages, AccountsOK

(* What the update is about does not change while it is handled.           *)
SameAim(x, y) ==
    /\ y.work = x.work /\ y.target = x.target /\ y.forward = x.forward /\ y.shown = x.shown

(* A step that shows no page.                                              *)
LEMMA WalkAside ==
    ASSUME WalkInv, UNCHANGED <<accounts, screen>>, walk' \in {walk, NoWalk},
           Busy(h), SameAim(h, h'), h'.pc # "plain",
           h'.pc = "reply" => h'.text # "page",
           h'.pc = "answer" => h'.final \/ h'.text # "page"
    PROVE  WalkInv'
<1>1. Sorted' = Sorted /\ Pages' = Pages /\ AccountsOK'
  BY SameList DEF WalkInv
<1>2. Aims(h') /\ Page(screen')
  BY DEF WalkInv, Aims, SameAim
<1>3. ASSUME walk' # NoWalk PROVE Follows(OnScreen(h))' /\ Heads(h)'
  <2>1. walk' = walk /\ Follows(OnScreen(h)) /\ Heads(h)
    BY <1>3 DEF WalkInv
  <2>2. OnScreen(h) = screen /\ OnScreen(h)' = screen
    BY DEF OnScreen, Busy
  <2>3. Follows(OnScreen(h))'
    BY <1>1, <2>1, <2>2 DEF Follows, UpTo
  <2>4. Heads(h)'
    BY <2>1 DEF Heads, Busy, SameAim
  <2>5. QED
    BY <2>3, <2>4
<1>4. QED
  BY <1>1, <1>2, <1>3 DEF WalkInv, Aims

(* A step that gives the walk up.                                          *)
LEMMA WalkDropped ==
    ASSUME WalkInv, AccountsOK', UNCHANGED screen, walk' = NoWalk, SameAim(h, h'),
           h'.pc = "answer" => h'.final \/ h'.text # "page"
    PROVE  WalkInv'
BY DEF WalkInv, Aims, SameAim

LEMMA RaisedAim ==
    ASSUME NEW x, Hand(x), NEW text
    PROVE  /\ SameAim(x, Raised(x, text))
           /\ Raised(x, text).pc = "answer" => Raised(x, text).final = TRUE
           /\ Raised(x, text).pc = "reply" => Raised(x, text).text = text
           /\ Raised(x, text).pc \in {"done", "answer", "reply"}
BY DEF Raised, Hand, SameAim

LEMMA WalkStarts ==
    ASSUME BotInv, WalkInv, Updates
    PROVE  WalkInv'
<1>1. PICK work, c, next : /\ work \in Works /\ c \in Caller /\ Fresh(next)
                           /\ Aimed(work, next) /\ Takes(work, c, next)
  BY Starting
<1>2. /\ h'.work = work /\ SameAim([next EXCEPT !.work = work], h')
      /\ h'.text \in {"info", "denied", "burst", "throttled"}
  <2>1. /\ h'.text \in {"info", "denied", "burst", "throttled"}
        /\ h'.work = work /\ h'.target = next.target /\ h'.forward = next.forward
        /\ h'.shown = next.shown
    BY <1>1, Arrival
  <2>2. QED
    BY <1>1, <2>1 DEF SameAim, Fresh, Hand
<1>3. /\ h'.target = next.target /\ h'.forward = next.forward /\ h'.shown = NoPage
  BY <1>1, Arrival DEF Aimed
<1>4. /\ UNCHANGED <<accounts, screen, walk>> /\ At("idle")
  BY <1>1 DEF Takes
<1>5. Sorted' = Sorted /\ Pages' = Pages /\ AccountsOK'
  BY <1>4, SameList DEF WalkInv
<1>6. Aims(h')
  BY <1>1, <1>2, <1>3 DEF Aims, Aimed, Page, NoPage
<1>7. Heads(h)'
  BY <1>1, <1>3, <1>4 DEF Heads, Aimed
<1>8. OnScreen(h) = screen /\ OnScreen(h)' = screen
  BY <1>2, <1>4 DEF OnScreen, At
<1>9. walk' # NoWalk => Follows(OnScreen(h))'
  BY <1>4, <1>5, <1>8 DEF WalkInv, Follows, UpTo
<1>10. QED
  BY <1>4, <1>5, <1>6, <1>7, <1>9 DEF WalkInv, Aims

LEMMA WalkSends ==
    ASSUME BotInv, WalkInv, Delivered \/ MarkupRejected \/ SendFails
    PROVE  WalkInv'
<1> USE DEF BotInv
<1>0. UNCHANGED accounts /\ h.pc \in {"reply", "plain"}
  BY DEF Delivered, MarkupRejected, SendFails, KeepButSending, At
<1>1. Sorted' = Sorted /\ Pages' = Pages /\ AccountsOK'
  BY <1>0, SameList DEF WalkInv
<1>2. CASE Delivered
  <2>1. PICK x \in {h, Reaches(h)} : h' = [x EXCEPT !.pc = "done"]
    BY <1>2 DEF Delivered
  <2>2. Hand(x) /\ SameAim(h, x)
    BY DEF Hand, Reaches, SameAim
  <2>3. h'.pc = "done" /\ SameAim(h, h')
    BY <2>1, <2>2 DEF Hand, SameAim
  <2>4. screen' = OnScreen(h) /\ walk' = walk
    BY <1>2 DEF Delivered, OnScreen
  <2>5. OnScreen(h)' = screen'
    BY <2>3 DEF OnScreen
  <2>6. Page(screen') /\ Aims(h')
    BY <2>3, <2>4 DEF WalkInv, Aims, SameAim, OnScreen
  <2>7. walk' # NoWalk => Follows(OnScreen(h))'
    BY <1>1, <2>4, <2>5 DEF WalkInv, Follows, UpTo
  <2>8. Heads(h)'
    BY <2>3 DEF Heads, Busy
  <2>9. QED
    BY <1>1, <2>6, <2>7, <2>8 DEF WalkInv, Aims
<1>3. CASE MarkupRejected
  <2>1. h'.pc = "plain" /\ SameAim(h, h') /\ h'.text = h.text
    BY <1>3 DEF MarkupRejected, To, Hand, SameAim
  <2>2. screen' = screen /\ walk' = walk
    BY <1>3 DEF MarkupRejected
  <2>3. OnScreen(h)' = OnScreen(h)
    BY <1>0, <2>1, <2>2 DEF OnScreen, SameAim
  <2>4. Page(screen') /\ Aims(h')
    BY <2>1, <2>2 DEF WalkInv, Aims, SameAim
  <2>5. walk' # NoWalk => Follows(OnScreen(h))'
    BY <1>1, <2>2, <2>3 DEF WalkInv, Follows, UpTo
  <2>6. Heads(h)'
    BY <2>1 DEF Heads, Busy
  <2>7. QED
    BY <1>1, <2>4, <2>5, <2>6 DEF WalkInv, Aims
<1>4. CASE SendFails
  <2>1. PICK x \in {Faulty, Reaches(Faulty)} : h' = Raised(x, "internal")
    BY <1>4 DEF SendFails, Apology
  <2>2. Hand(x) /\ SameAim(h, x)
    BY <2>1 DEF Hand, Faulty, Reaches, SameAim
  <2>3. SameAim(h, h') /\ (h'.pc = "answer" => h'.final \/ h'.text # "page")
    BY <2>1, <2>2, RaisedAim DEF SameAim
  <2>4. QED
    BY <1>1, <1>4, <2>3, WalkDropped DEF SendFails
<1>5. QED
  BY <1>2, <1>3, <1>4

(* The services, except for the pages themselves.                          *)
LEMMA WalkServes ==
    ASSUME BotInv, WalkInv,
           ServiceFails \/ ReadForReply \/ LookUpAccount \/ ServiceDone \/ ServiceRefuses
    PROVE  WalkInv'
<1> USE DEF BotInv
<1>0. UNCHANGED screen /\ Busy(h)
  BY DEF ServiceFails, ReadForReply, LookUpAccount, ServiceDone, ServiceRefuses,
     KeepButHand, KeepButService, At, Busy
<1>1. CASE ServiceFails \/ ServiceRefuses
  <2>1. PICK text \in {"internal", "refused"} : h' = Raised(h, text)
    BY <1>1 DEF ServiceFails, ServiceRefuses, Apology
  <2>2. /\ SameAim(h, h') /\ (h'.pc = "answer" => h'.final) /\ h'.pc # "plain"
        /\ (h'.pc = "reply" => h'.text # "page")
    BY <2>1, RaisedAim
  <2>3. UNCHANGED <<accounts, screen>> /\ walk' \in {walk, NoWalk}
    BY <1>0, <1>1 DEF ServiceFails, ServiceRefuses, KeepButHand
  <2>4. QED
    BY <1>0, <2>2, <2>3, WalkAside
<1>2. CASE ReadForReply
  <2>1. h'.pc = "reply" /\ h'.text = "info" /\ SameAim(h, h')
    BY <1>2 DEF ReadForReply, Says, Hand, SameAim
  <2>2. UNCHANGED <<accounts, screen>> /\ walk' = walk
    BY <1>2 DEF ReadForReply, KeepButHand
  <2>3. QED
    BY <1>0, <2>1, <2>2, WalkAside
<1>3. CASE LookUpAccount
  <2>1. PICK already : h' = [h EXCEPT !.pc = "service", !.already = already]
    BY <1>3 DEF LookUpAccount
  <2>2. h'.pc = "service" /\ SameAim(h, h')
    BY <2>1 DEF Hand, SameAim
  <2>3. UNCHANGED <<accounts, screen>> /\ walk' = walk
    BY <1>3 DEF LookUpAccount, KeepButHand
  <2>4. QED
    BY <1>0, <2>2, <2>3, WalkAside
<1>4. CASE ServiceDone
  <2>1. PICK text \in {"done", "already"} :
          h' = [h EXCEPT !.pc = "reply", !.text = text, !.effect = TRUE]
    BY <1>4 DEF ServiceDone
  <2>2. h'.pc = "reply" /\ SameAim(h, h')
    BY <2>1 DEF Hand, SameAim
  <2>3. h.work = "add" => h.target \in Accounts
    BY DEF WalkInv, Aims
  <2>4. DOMAIN accounts' \subseteq DOMAIN accounts \cup {a \in {h.target} : h.work = "add"}
    <3>1. CASE h.work = "add"
      BY <1>4, <3>1 DEF ServiceDone, Added
    <3>2. CASE h.work = "remove"
      BY <1>4, <3>2 DEF ServiceDone, Removed
    <3>3. CASE h.work \in {"pause", "resume"}
      BY <1>4, <3>3 DEF ServiceDone
    <3>4. CASE h.work \notin {"add", "remove", "pause", "resume"}
      BY <1>4, <3>4 DEF ServiceDone
    <3>5. QED
      BY <3>1, <3>2, <3>3, <3>4
  <2>5. AccountsOK'
    BY <2>3, <2>4 DEF WalkInv, AccountsOK
  <2>6. QED
    BY <1>0, <1>4, <2>2, <2>5, WalkDropped DEF ServiceDone
<1>5. QED
  BY <1>1, <1>2, <1>3, <1>4

LEMMA WalkUploads ==
    ASSUME BotInv, WalkInv,
           \/ TooLargeByMetadata \/ GetFile \/ Downloaded \/ UploadFails
           \/ CookieRefused \/ CookieStored \/ MessageDeleted \/ DeleteFails
    PROVE  WalkInv'
<1> USE DEF BotInv
<1>0. UNCHANGED <<accounts, screen, walk>> /\ Busy(h)
  BY DEF TooLargeByMetadata, GetFile, Downloaded, UploadFails, CookieRefused, CookieStored,
     MessageDeleted, DeleteFails, KeepButUpload, At, Busy
<1> DEFINE Quiet == /\ SameAim(h, h') /\ h'.pc # "plain"
                    /\ h'.pc = "reply" => h'.text # "page"
                    /\ h'.pc = "answer" => h'.final \/ h'.text # "page"
<1>1. CASE UploadFails \/ CookieRefused
  <2>1. PICK x \in {h, Faulty}, text \in {"internal", "refused"} : h' = Raised(x, text)
    BY <1>1 DEF UploadFails, CookieRefused, Apology
  <2>2. Hand(x) /\ SameAim(h, x)
    BY DEF Hand, Faulty, SameAim
  <2>3. Quiet
    BY <2>1, <2>2, RaisedAim DEF SameAim
  <2>4. QED
    BY <1>0, <2>3, WalkAside
<1>2. CASE TooLargeByMetadata \/ GetFile \/ Downloaded
  <2>1. Says("too large") \/ To("download") \/ To("store")
    BY <1>2 DEF TooLargeByMetadata, GetFile, Downloaded
  <2>2. Quiet
    <3>1. CASE Says("too large")
      BY <3>1 DEF Says, Hand, SameAim
    <3>2. CASE To("download") \/ To("store")
      BY <3>2 DEF To, Hand, SameAim
    <3>3. QED
      BY <2>1, <3>1, <3>2
  <2>3. QED
    BY <1>0, <2>2, WalkAside
<1>3. CASE CookieStored
  <2>1. Quiet
    BY <1>3 DEF CookieStored, Hand, SameAim
  <2>2. QED
    BY <1>0, <2>1, WalkAside
<1>4. CASE MessageDeleted
  <2>1. Quiet
    BY <1>4 DEF MessageDeleted, Hand, SameAim
  <2>2. QED
    BY <1>0, <2>1, WalkAside
<1>5. CASE DeleteFails
  <2>1. PICK gone \in BOOLEAN :
          h' = [h EXCEPT !.pc = "reply", !.text = "done", !.deleted = gone, !.faulty = TRUE]
    BY <1>5 DEF DeleteFails
  <2>2. Quiet
    BY <2>1 DEF Hand, SameAim
  <2>3. QED
    BY <1>0, <2>2, WalkAside
<1>6. QED
  BY <1>1, <1>2, <1>3, <1>4, <1>5

LEMMA WalkAnswers ==
    ASSUME BotInv, WalkInv, Answers \/ AnswerFails
    PROVE  WalkInv'
<1> USE DEF BotInv
<1>0. UNCHANGED <<accounts, screen, walk>> /\ Busy(h) /\ h.pc = "answer"
  BY DEF Answers, AnswerFails, KeepButHand, At, Busy
<1>1. CASE Answers
  <2> DEFINE pc == CASE h.final -> "done"
                     [] ~h.final /\ h.verdict # "allowed" -> "reply"
                     [] ~h.final /\ h.verdict = "allowed" /\ ~h.fresh -> "done"
                     [] OTHER -> "read"
  <2>1. pc = "done" \/ (~h.final /\ pc \in {"reply", "read"})
    BY DEF FileHeld
  <2>2. h' = [h EXCEPT !.answers = @ + 1, !.answered = TRUE, !.pc = pc]
    BY <1>1 DEF Answers
  <2> HIDE DEF pc
  <2>3. h'.pc = pc /\ h'.text = h.text /\ SameAim(h, h')
    BY <2>2 DEF Hand, SameAim
  <2>4. h.final \/ h.text # "page"
    BY <1>0 DEF WalkInv, Aims
  <2>5. h'.pc \notin {"plain", "answer"} /\ (h'.pc = "reply" => h'.text # "page")
    BY <2>1, <2>3, <2>4
  <2>6. QED
    BY <1>0, <2>3, <2>5, WalkAside
<1>2. CASE AnswerFails
  <2>0. PICK n \in {0, 1} : h' = Raised([Faulty EXCEPT !.answers = @ + n], "internal")
    BY <1>2 DEF AnswerFails, Apology
  <2>1. PICK x \in {[Faulty EXCEPT !.answers = @ + n]} : h' = Raised(x, "internal")
    BY <2>0
  <2>2. PICK y \in {Faulty} : \E m : x = [y EXCEPT !.answers = m]
    BY <2>1
  <2>3. Hand(y) /\ SameAim(h, y)
    BY <2>2 DEF Hand, Faulty, SameAim
  <2>4. Hand(x) /\ SameAim(h, x)
    BY <2>2, <2>3 DEF Hand, SameAim
  <2>5. /\ SameAim(h, h') /\ (h'.pc = "answer" => h'.final) /\ h'.pc # "plain"
        /\ (h'.pc = "reply" => h'.text # "page")
    BY <2>1, <2>4, RaisedAim DEF SameAim
  <2>6. QED
    BY <1>0, <2>5, WalkAside
<1>3. QED
  BY <1>1, <1>2

LEMMA OlderShape ==
    ASSUME NEW p, Page(p)
    PROVE  /\ Page(OlderPage(p)) /\ OlderPage(p).page = p.page
           /\ OlderPage(p).total = p.total /\ OlderPage(p).rows = p.rows
BY DEF OlderPage, Page

(* The handler ends, time passes, or the accounts change elsewhere.        *)
LEMMA WalkEnds ==
    ASSUME BotInv, WalkInv, Finish \/ Cancelled \/ Elsewhere \/ Tick
    PROVE  WalkInv'
<1> USE DEF BotInv
<1>1. CASE Finish
  <2>1. UNCHANGED <<accounts, screen, walk>> /\ h.pc = "done" /\ h' = Idle
    BY <1>1 DEF Finish, KeepButHand, At
  <2>2. Sorted' = Sorted /\ Pages' = Pages /\ AccountsOK'
    BY <2>1, SameList DEF WalkInv
  <2>3. Aims(h') /\ Heads(h)'
    BY <2>1 DEF Aims, Heads, Busy, Idle, Page, NoPage
  <2>4. OnScreen(h) = screen /\ OnScreen(h)' = screen
    BY <2>1 DEF OnScreen, Idle
  <2>5. walk' # NoWalk => Follows(OnScreen(h))'
    BY <2>1, <2>2, <2>4 DEF WalkInv, Follows, UpTo
  <2>6. QED
    BY <2>1, <2>2, <2>3, <2>5 DEF WalkInv, Aims
<1>2. CASE Cancelled
  <2>1. h'.pc = "done" /\ SameAim(h, h')
    BY <1>2 DEF Cancelled, Hand, SameAim
  <2>2. UNCHANGED <<accounts, screen>> /\ walk' = NoWalk
    BY <1>2 DEF Cancelled, KeepButSending
  <2>3. AccountsOK'
    BY <2>2, SameList DEF WalkInv
  <2>4. QED
    BY <2>1, <2>2, <2>3, WalkDropped
<1>3. CASE Elsewhere
  <2>1. PICK a \in Accounts :
          accounts' = IF a \in DOMAIN accounts THEN Removed(a) ELSE Added(a)
    BY <1>3 DEF Elsewhere
  <2>2. DOMAIN accounts' \subseteq DOMAIN accounts \cup {a}
    <3>1. CASE a \in DOMAIN accounts
      BY <2>1, <3>1 DEF Removed
    <3>2. CASE a \notin DOMAIN accounts
      BY <2>1, <3>2 DEF Added
    <3>3. QED
      BY <3>1, <3>2
  <2>3. AccountsOK'
    BY <2>2 DEF WalkInv, AccountsOK
  <2>4. UNCHANGED <<screen, h>> /\ walk' = NoWalk
    BY <1>3 DEF Elsewhere
  <2>5. QED
    BY <2>3, <2>4 DEF WalkInv, Aims
<1>4. CASE Tick
  <2>1. UNCHANGED <<accounts, walk>> /\ screen' = OlderPage(screen)
        /\ h' = [h EXCEPT !.shown = OlderPage(h.shown)]
    BY <1>4 DEF Tick
  <2>2. Sorted' = Sorted /\ Pages' = Pages /\ AccountsOK'
    BY <2>1, SameList DEF WalkInv
  <2>3. /\ h'.pc = h.pc /\ h'.text = h.text /\ h'.final = h.final /\ h'.work = h.work
        /\ h'.target = h.target /\ h'.forward = h.forward /\ h'.shown = OlderPage(h.shown)
    BY <2>1 DEF Hand
  <2>4. /\ Page(screen) /\ Page(h.shown)
        /\ Page(screen') /\ screen'.page = screen.page /\ screen'.total = screen.total
        /\ Page(h'.shown) /\ h'.shown.page = h.shown.page /\ h'.shown.total = h.shown.total
    BY <2>1, <2>3, OlderShape DEF WalkInv, Aims
  <2>5. Aims(h') /\ (Heads(h) => Heads(h)')
    BY <2>3, <2>4 DEF WalkInv, Aims, Heads, Busy
  <2>6. OnScreen(h)'.page = OnScreen(h).page /\ OnScreen(h)'.total = OnScreen(h).total
    BY <2>3, <2>4 DEF OnScreen
  <2>7. walk' # NoWalk => Follows(OnScreen(h))'
    BY <2>1, <2>2, <2>6 DEF WalkInv, Follows, UpTo
  <2>8. QED
    BY <2>1, <2>2, <2>4, <2>5, <2>7 DEF WalkInv, Aims
<1>5. QED
  BY <1>1, <1>2, <1>3, <1>4

(***************************************************************************)
(* A page that the list has, as render_list_page makes it; and the page    *)
(* after those that have been seen.                                        *)
(***************************************************************************)
LEMMA RenderedPage ==
    ASSUME AccountsOK, NEW p \in Nat, p < Pages
    PROVE  /\ Rendered(p) = Sheet(p, Pages)
           /\ p * PageSize \in Nat /\ (p + 1) * PageSize = p * PageSize + PageSize
           /\ p * PageSize < Len(Sorted)
           /\ Min({p, Pages - 1}) = p
<1>1. /\ Pages \in Nat /\ Len(Sorted) \in Nat /\ p * PageSize < Len(Sorted)
      /\ PageSize \in Nat
  BY PagesCover, BotAssumption
<1>2. /\ p * PageSize \in Nat /\ (p + 1) * PageSize = p * PageSize + PageSize
  BY <1>1, Multiples
<1>3. Sorted # <<>>
  BY <1>1, <1>2
<1>4. Min({p, Pages - 1}) = p
  BY <1>1, MinOfTwo
<1>5. QED
  BY <1>1, <1>2, <1>3, <1>4 DEF Rendered

LEMMA SheetShape ==
    ASSUME NEW p, NEW total, NEW s, s = Sheet(p, total)
    PROVE  /\ Page(s) /\ s.page = p /\ s.total = total
           /\ s.rows =
                  SubSeq(Sorted, p * PageSize + 1, Min({Len(Sorted), (p + 1) * PageSize}))
BY DEF Sheet, Page

LEMMA FirstPage ==
    ASSUME AccountsOK
    PROVE  /\ Page(Rendered(0)) /\ Rendered(0).page = 0 /\ Rendered(0).total = Pages
           /\ Rendered(0).rows = UpTo(0)
<1>0. Len(Sorted) \in Nat /\ Pages \in Nat /\ PageSize \in Nat \ {0}
  BY PagesCover, BotAssumption
<1>1. CASE Pages = 0
  <2>1. 0 * PageSize = 0 /\ (0 + 1) * PageSize = PageSize
    BY <1>0
  <2>2. ~(0 * PageSize < Len(Sorted))
    BY <1>0, <1>1, PagesCover
  <2>3. Len(Sorted) = 0 /\ Sorted = <<>>
    BY <1>0, <2>1, <2>2, SortedLists
  <2>4. Rendered(0) = NoPage
    BY <2>3 DEF Rendered
  <2>5. Min({Len(Sorted), (0 + 1) * PageSize}) = 0
    BY <1>0, <2>1, <2>3, MinOfTwo
  <2>6. UpTo(0) = <<>>
    BY <2>5, SubSeqEmpty DEF UpTo
  <2>7. QED
    BY <1>1, <2>4, <2>6 DEF NoPage, Page
<1>2. CASE Pages # 0
  <2>1. 0 < Pages
    BY <1>0, <1>2
  <2>2. PICK p \in Nat : p = 0
    OBVIOUS
  <2>3. Rendered(p) = Sheet(p, Pages)
    BY <2>1, <2>2, RenderedPage
  <2>4. p * PageSize + 1 = 1
    BY <1>0, <2>2
  <2>5. /\ Page(Rendered(p)) /\ Rendered(p).page = p /\ Rendered(p).total = Pages
        /\ Rendered(p).rows =
              SubSeq(Sorted, p * PageSize + 1, Min({Len(Sorted), (p + 1) * PageSize}))
    BY <2>3, SheetShape
  <2>6. Rendered(p).rows = UpTo(p)
    BY <2>4, <2>5 DEF UpTo
  <2>7. QED
    BY <2>2, <2>5, <2>6
<1>3. QED
  BY <1>1, <1>2

LEMMA NextPage ==
    ASSUME AccountsOK, NEW p \in Nat, p + 1 < Pages
    PROVE  /\ Page(Rendered(p + 1)) /\ Rendered(p + 1).page = p + 1
           /\ Rendered(p + 1).total = Pages
           /\ UpTo(p) \o Rendered(p + 1).rows = UpTo(p + 1)
<1>1. PICK q \in Nat : q = p + 1 /\ q < Pages
  OBVIOUS
<1>2. /\ Rendered(q) = Sheet(q, Pages) /\ q * PageSize \in Nat
      /\ (q + 1) * PageSize = q * PageSize + PageSize /\ q * PageSize < Len(Sorted)
  BY <1>1, RenderedPage
<1>3. Len(Sorted) \in Nat /\ PageSize \in Nat /\ Sorted \in Seq(DOMAIN accounts)
  BY PagesCover, SortedLists, BotAssumption
<1>4. PICK k \in Nat : k = q * PageSize
  BY <1>2
<1>5. UpTo(p) = SubSeq(Sorted, 1, k)
  <2>1. Min({Len(Sorted), q * PageSize}) = k
    BY <1>2, <1>3, <1>4, MinOfTwo
  <2>2. QED
    BY <1>1, <2>1 DEF UpTo
<1>6. PICK n \in k..Len(Sorted) : n = Min({Len(Sorted), (q + 1) * PageSize})
  <2>1. (q + 1) * PageSize \in Nat
    BY <1>2, <1>3
  <2>2. Min({Len(Sorted), (q + 1) * PageSize}) \in k..Len(Sorted)
    BY <1>2, <1>3, <1>4, <2>1, MinOfTwo
  <2>3. QED
    BY <2>2
<1>7. /\ Page(Rendered(q)) /\ Rendered(q).page = q /\ Rendered(q).total = Pages
      /\ Rendered(q).rows =
            SubSeq(Sorted, q * PageSize + 1, Min({Len(Sorted), (q + 1) * PageSize}))
  <2>1. Rendered(q) = Sheet(q, Pages)
    BY <1>2
  <2>2. QED
    BY <2>1, SheetShape
<1>8. Rendered(q).rows = SubSeq(Sorted, k + 1, n)
  BY <1>4, <1>6, <1>7
<1>9. UpTo(q) = SubSeq(Sorted, 1, n)
  BY <1>6 DEF UpTo
<1>10. SubSeq(Sorted, 1, k) \o SubSeq(Sorted, k + 1, n) = SubSeq(Sorted, 1, n)
  <2>1. 1 \in 1..Len(Sorted) + 1 /\ k \in 1 - 1..Len(Sorted)
    BY <1>2, <1>3, <1>4
  <2>2. QED
    BY <1>3, <1>6, <2>1, ConcatAdjacentSubSeq
<1>11. QED
  BY <1>1, <1>5, <1>7, <1>8, <1>9, <1>10

LEMMA WalkReads ==
    ASSUME BotInv, WalkInv, ReadPage
    PROVE  WalkInv'
<1> USE DEF BotInv
<1>1. PICK shown \in {Rendered(h.target)} :
        /\ h' = [h EXCEPT !.pc = "reply", !.text = "page", !.shown = shown]
        /\ walk' = CASE h.work = "list" -> shown.rows
                     [] h.forward /\ walk # NoWalk -> walk \o shown.rows
                     [] OTHER -> NoWalk
  BY DEF ReadPage
<1>2. /\ h.pc = "read" /\ h.work \in {"list", "page"}
      /\ UNCHANGED <<accounts, screen>>
  BY DEF ReadPage, At, KeepButHand
<1>3. /\ h'.pc = "reply" /\ h'.text = "page" /\ h'.shown = shown /\ h'.work = h.work
      /\ h'.target = h.target /\ h'.forward = h.forward
  BY <1>1 DEF Hand
<1>4. Sorted' = Sorted /\ Pages' = Pages /\ AccountsOK' /\ AccountsOK
  BY <1>2, SameList DEF WalkInv
<1>5. Heads(h)' /\ OnScreen(h)' = shown
  BY <1>3 DEF Heads, Busy, OnScreen
<1>6. Page(shown)
  BY <1>1 DEF Rendered, Sheet, Page, NoPage
<1>7. Page(screen') /\ Aims(h')
  BY <1>2, <1>3, <1>6 DEF WalkInv, Aims
<1>8. ASSUME walk' # NoWalk
      PROVE  /\ shown.page \in Nat /\ shown.total = Pages
             /\ shown.page < Pages \/ (Pages = 0 /\ shown.page = 0)
             /\ walk' = UpTo(shown.page)
  <2>0. Pages \in Nat
    BY <1>4, PagesCover
  <2>1. CASE h.work = "list"
    <3>1. h.target = 0 /\ ~h.forward
      BY <2>1 DEF WalkInv, Aims
    <3>2. walk' = shown.rows /\ shown = Rendered(0)
      BY <1>1, <2>1, <3>1
    <3>3. shown.page = 0 /\ shown.total = Pages /\ shown.rows = UpTo(0)
      BY <1>4, <3>2, FirstPage
    <3>4. QED
      BY <2>0, <3>2, <3>3
  <2>2. CASE h.work # "list"
    <3>1. h.forward /\ walk # NoWalk /\ walk' = walk \o shown.rows
      BY <1>1, <1>8, <2>2
    <3>2. Follows(screen) /\ h.target = screen.page + 1 /\ h.target < screen.total
      BY <1>2, <3>1 DEF WalkInv, Heads, Busy, OnScreen
    <3>3. PICK p \in Nat : p = screen.page
      BY <3>2 DEF Follows
    <3>4. p + 1 < Pages /\ h.target = p + 1 /\ walk = UpTo(p)
      BY <3>2, <3>3 DEF Follows
    <3>5. shown = Rendered(p + 1)
      BY <1>1, <3>4
    <3>6. /\ shown.page = p + 1 /\ shown.total = Pages
          /\ walk \o shown.rows = UpTo(p + 1)
      BY <1>4, <3>4, <3>5, NextPage
    <3>7. p + 1 \in Nat /\ walk' = UpTo(p + 1)
      BY <3>1, <3>6
    <3>8. QED
      BY <3>4, <3>6, <3>7
  <2>3. QED
    BY <2>1, <2>2
<1>9. walk' # NoWalk => Follows(OnScreen(h))'
  BY <1>4, <1>5, <1>8 DEF Follows, UpTo
<1>10. QED
  BY <1>4, <1>5, <1>7, <1>9 DEF WalkInv, Aims

LEMMA WalkInvInitially == Init => WalkInv
<1> SUFFICES ASSUME Init PROVE WalkInv
  OBVIOUS
<1>1. AccountsOK
  BY DEF Init, AccountsOK
<1>2. Page(screen) /\ Aims(h)
  BY DEF Init, Page, NoPage, Aims, Idle
<1>3. walk = NoWalk
  BY DEF Init
<1>4. QED
  BY <1>1, <1>2, <1>3 DEF WalkInv

LEMMA WalkInvKept == BotInv /\ WalkInv /\ [Next]_vars => WalkInv'
<1> SUFFICES ASSUME BotInv, WalkInv, [Next]_vars PROVE WalkInv'
  OBVIOUS
<1>1. CASE Updates
  BY <1>1, WalkStarts
<1>2. CASE Handling
  BY <1>2, WalkSends, WalkServes, WalkReads, WalkUploads, WalkAnswers, WalkEnds DEF Handling
<1>3. CASE Cancelled \/ Elsewhere \/ Tick
  BY <1>3, WalkEnds
<1>4. CASE UNCHANGED vars
  <2>1. UNCHANGED <<accounts, screen, h, walk>>
    BY <1>4 DEF vars
  <2>2. Sorted' = Sorted /\ Pages' = Pages /\ AccountsOK'
    BY <2>1, SameList DEF WalkInv
  <2>3. QED
    BY <2>1, <2>2 DEF WalkInv, Aims, Heads, Follows, UpTo, OnScreen
<1>5. QED
  BY <1>1, <1>2, <1>3, <1>4 DEF Next

LEMMA WalkInvShows == WalkInv => WalkShowsAll
<1> SUFFICES ASSUME WalkInv, h.pc = "done", walk # NoWalk, screen.page + 1 = screen.total
             PROVE  walk = Sorted
  BY DEF WalkShowsAll, At
<1>1. Follows(screen) /\ AccountsOK
  BY DEF WalkInv, OnScreen
<1>2. PICK p \in Nat : p = screen.page /\ Pages = p + 1 /\ walk = UpTo(p)
  BY <1>1 DEF Follows
<1>3. /\ Len(Sorted) \in Nat /\ ~((p + 1) * PageSize < Len(Sorted))
      /\ (p + 1) * PageSize \in Nat
  <2>1. p + 1 \in Nat /\ ~(p + 1 < Pages) /\ PageSize \in Nat
    BY <1>2, BotAssumption
  <2>2. QED
    BY <1>1, <2>1, PagesCover, Multiples
<1>4. Min({Len(Sorted), (p + 1) * PageSize}) = Len(Sorted)
  BY <1>3, MinOfTwo
<1>5. UpTo(p) = Sorted
  BY <1>1, <1>4, SortedLists, SubSeqFull DEF UpTo
<1>6. QED
  BY <1>2, <1>5

(***************************************************************************)
(* Whoever follows the list to its last page has seen every account, once, *)
(* unless the accounts changed on the way (bot/pagination.py:64): the walk *)
(* is the whole list.                                                      *)
(***************************************************************************)
THEOREM WalkSeesAll == Spec => []WalkShowsAll
BY BotInvInitially, BotInvKept, WalkInvInitially, WalkInvKept, WalkInvShows, PTL DEF Spec

(***************************************************************************)
(* ... and the list has every account, once and in the order of the ids.   *)
(***************************************************************************)
THEOREM ListIsComplete ==
    Spec => [](/\ ToSet(Sorted) = DOMAIN accounts
               /\ \A i, j \in DOMAIN Sorted : i < j => Sorted[i] < Sorted[j])
<1>1. WalkInv => /\ ToSet(Sorted) = DOMAIN accounts
                 /\ \A i, j \in DOMAIN Sorted : i < j => Sorted[i] < Sorted[j]
  BY SortedLists DEF WalkInv
<1>2. QED
  BY BotInvInitially, BotInvKept, WalkInvInitially, WalkInvKept, <1>1, PTL DEF Spec

-----------------------------------------------------------------------------
(***************************************************************************)
(* How far the update in hand has come: what has been answered and said at *)
(* each place.  Only a failing call of Telegram, or a shutdown, leads to   *)
(* one answer or one message too many or too few.                          *)
(***************************************************************************)
CourseOfPress(x) ==
    /\ x.pc \in {"answer", "read", "reply", "plain", "done"}
    /\ x.pc = "answer" => IF x.final THEN x.faulty ELSE x.answers = 0 /\ ~x.answered
    /\ x.pc \in {"read", "reply", "plain"} => ~x.final /\ x.answered /\ x.answers = 1
    /\ x.pc = "done" => /\ x.answers <= 1 \/ x.final
                        /\ x.answers = 1 \/ x.faulty \/ x.cancelled

CourseOfCommand(x) ==
    /\ x.pc # "answer"
    /\ Busy(x) => ~x.final
    /\ x.pc # "done" => x.faulty \/ x.sent = <<>>
    /\ x.pc = "done" => x.faulty \/ x.cancelled \/ x.chat = "none" \/ Len(x.sent) = 1

Course(x) == IF x.work = "page" THEN CourseOfPress(x) ELSE CourseOfCommand(x)

(* What a step carries over that says and answers nothing.                 *)
Carries(x, y) ==
    /\ y.work = x.work /\ y.chat = x.chat /\ y.sent = x.sent /\ y.answers = x.answers
    /\ y.answered = x.answered /\ y.cancelled = x.cancelled
    /\ x.faulty => y.faulty

LEMMA RaisedCarries ==
    ASSUME NEW x, Hand(x), NEW text
    PROVE  /\ Carries(x, Raised(x, text)) /\ Raised(x, text).final = TRUE
           /\ Raised(x, text).pc = IF x.final THEN "done"
                                   ELSE IF x.work = "page"
                                   THEN IF x.answered THEN "done" ELSE "answer"
                                   ELSE "reply"
BY DEF Raised, Hand, Carries

(* An exception where a service or a file is waited for.                   *)
LEMMA CourseRaised ==
    ASSUME NEW x, Hand(x), Busy(h), h.pc # "answer", Course(h), Carries(h, x),
           x.final = h.final, NEW text
    PROVE  Course(Raised(x, text))
<1>1. PICK y \in {Raised(x, text)} :
        /\ Carries(x, y) /\ y.final = TRUE
        /\ y.pc = IF x.final THEN "done"
                  ELSE IF x.work = "page" THEN IF x.answered THEN "done" ELSE "answer"
                  ELSE "reply"
  BY RaisedCarries
<1>2. CASE h.work = "page"
  <2>1. ~h.final /\ h.answered /\ h.answers = 1
    BY <1>2 DEF Course, CourseOfPress, Busy
  <2>2. y.pc = "done" /\ y.work = "page" /\ y.answers = 1 /\ y.final
    BY <1>1, <1>2, <2>1 DEF Carries
  <2>3. QED
    BY <1>1, <2>2 DEF Course, CourseOfPress
<1>3. CASE h.work # "page"
  <2>1. ~h.final /\ (h.faulty \/ h.sent = <<>>)
    BY <1>3 DEF Course, CourseOfCommand, Busy
  <2>2. y.pc = "reply" /\ y.work # "page" /\ (y.faulty \/ y.sent = <<>>)
    BY <1>1, <1>3, <2>1 DEF Carries
  <2>3. QED
    BY <1>1, <2>2 DEF Course, CourseOfCommand, Busy
<1>4. QED
  BY <1>2, <1>3

(* A step from one place to the next.                                      *)
LEMMA CourseOnward ==
    ASSUME Busy(h), h.pc # "answer", Course(h), Carries(h, h'), h'.final = h.final,
           \/ h'.pc = "reply"
           \/ h.pc # "read" /\ h'.pc \in {"service", "download", "store", "delete"}
    PROVE  Course(h')
<1>1. CASE h.work = "page"
  BY <1>1 DEF Course, CourseOfPress, Busy, Carries
<1>2. CASE h.work # "page"
  BY <1>2 DEF Course, CourseOfCommand, Busy, Carries
<1>3. QED
  BY <1>1, <1>2

LEMMA CourseSends ==
    ASSUME Hand(h), Course(h), h.text \in Texts, Delivered \/ MarkupRejected \/ SendFails
    PROVE  Course(h')
<1>0. h.pc \in {"reply", "plain"}
  BY DEF Delivered, MarkupRejected, SendFails, At
<1>1. CASE Delivered
  <2>1. PICK x \in {h, Reaches(h)} :
          x = (IF NoChat THEN h ELSE Reaches(h)) /\ h' = [x EXCEPT !.pc = "done"]
    BY <1>1 DEF Delivered
  <2>2. Hand(x) /\ x.work = h.work /\ x.chat = h.chat /\ x.answers = h.answers
        /\ x.answered = h.answered /\ x.cancelled = h.cancelled /\ x.faulty = h.faulty
        /\ x.final = h.final
    BY DEF Hand, Reaches
  <2>3. x.sent = IF NoChat THEN h.sent ELSE Append(h.sent, h.text)
    BY <2>1 DEF Hand, Reaches
  <2>4. /\ h'.pc = "done" /\ h'.work = h.work /\ h'.chat = h.chat /\ h'.answers = h.answers
        /\ h'.cancelled = h.cancelled /\ h'.faulty = h.faulty /\ h'.final = h.final
        /\ h'.sent = x.sent
    BY <2>1, <2>2 DEF Hand
  <2>5. CASE h.work = "page"
    BY <1>0, <2>4, <2>5 DEF Course, CourseOfPress
  <2>6. CASE h.work # "page"
    <3>1. h.chat # "none" /\ h.sent = <<>> => Len(h'.sent) = 1
      BY <2>3, <2>4, <2>6 DEF NoChat
    <3>2. h.faulty \/ h.sent = <<>>
      BY <1>0, <2>6 DEF Course, CourseOfCommand
    <3>3. QED
      BY <2>4, <2>6, <3>1, <3>2 DEF Course, CourseOfCommand, Busy
  <2>7. QED
    BY <2>5, <2>6
<1>2. CASE MarkupRejected
  <2>1. h'.pc = "plain" /\ Carries(h, h') /\ h'.final = h.final
    BY <1>2 DEF MarkupRejected, To, Hand, Carries
  <2>2. QED
    BY <1>0, <2>1 DEF Course, CourseOfPress, CourseOfCommand, Carries, Busy
<1>3. CASE SendFails
  <2>1. PICK x \in {Faulty, Reaches(Faulty)} : h' = Raised(x, "internal")
    BY <1>3 DEF SendFails, Apology
  <2>2. /\ Hand(x) /\ x.work = h.work /\ x.answers = h.answers
        /\ x.answered = h.answered /\ x.faulty = TRUE /\ x.final = h.final
    BY <2>1 DEF Hand, Faulty, Reaches
  <2>3. /\ Carries(x, h') /\ h'.final = TRUE
        /\ h'.pc = IF x.final THEN "done"
                   ELSE IF x.work = "page" THEN IF x.answered THEN "done" ELSE "answer"
                   ELSE "reply"
    BY <2>1, <2>2, RaisedCarries
  <2>4. h'.faulty /\ h'.work = h.work /\ h'.answers = h.answers
    BY <2>2, <2>3 DEF Carries
  <2>5. CASE h.work = "page"
    <3>1. h.answered /\ h.answers = 1 /\ ~h.final
      BY <1>0, <2>5 DEF Course, CourseOfPress
    <3>2. h'.pc = "done"
      BY <2>2, <2>3, <2>5, <3>1
    <3>3. QED
      BY <2>4, <2>5, <3>1, <3>2 DEF Course, CourseOfPress
  <2>6. CASE h.work # "page"
    <3>1. h'.pc \in {"done", "reply"}
      BY <2>2, <2>3, <2>6
    <3>2. QED
      BY <2>4, <2>6, <3>1 DEF Course, CourseOfCommand, Busy
  <2>7. QED
    BY <2>5, <2>6
<1>4. QED
  BY <1>1, <1>2, <1>3

LEMMA CourseServes ==
    ASSUME Hand(h), Course(h),
           \/ ServiceFails \/ ReadForReply \/ ReadPage \/ LookUpAccount
           \/ ServiceDone \/ ServiceRefuses
    PROVE  Course(h')
<1>0. Busy(h) /\ h.pc # "answer"
  BY DEF ServiceFails, ReadForReply, ReadPage, LookUpAccount, ServiceDone, ServiceRefuses,
     At, Busy
<1>1. CASE ServiceFails \/ ServiceRefuses
  <2>1. PICK text \in {"internal", "refused"} : h' = Raised(h, text)
    BY <1>1 DEF ServiceFails, ServiceRefuses, Apology
  <2>2. Carries(h, h)
    BY DEF Carries
  <2>3. QED
    BY <1>0, <2>1, <2>2, CourseRaised
<1>2. CASE ReadForReply
  <2>1. h'.pc = "reply" /\ Carries(h, h') /\ h'.final = h.final
    BY <1>2 DEF ReadForReply, Says, Hand, Carries
  <2>2. QED
    BY <1>0, <2>1, CourseOnward
<1>3. CASE ReadPage
  <2>1. PICK shown : h' = [h EXCEPT !.pc = "reply", !.text = "page", !.shown = shown]
    BY <1>3 DEF ReadPage
  <2>2. h'.pc = "reply" /\ Carries(h, h') /\ h'.final = h.final
    BY <2>1 DEF Hand, Carries
  <2>3. QED
    BY <1>0, <2>2, CourseOnward
<1>4. CASE LookUpAccount
  <2>1. PICK already : h' = [h EXCEPT !.pc = "service", !.already = already]
    BY <1>4 DEF LookUpAccount
  <2>2. h'.pc = "service" /\ Carries(h, h') /\ h'.final = h.final
    BY <2>1 DEF Hand, Carries
  <2>3. h.pc # "read"
    BY <1>4 DEF LookUpAccount, At
  <2>4. QED
    BY <1>0, <2>2, <2>3, CourseOnward
<1>5. CASE ServiceDone
  <2>1. PICK text : h' = [h EXCEPT !.pc = "reply", !.text = text, !.effect = TRUE]
    BY <1>5 DEF ServiceDone
  <2>2. h'.pc = "reply" /\ Carries(h, h') /\ h'.final = h.final
    BY <2>1 DEF Hand, Carries
  <2>3. QED
    BY <1>0, <2>2, CourseOnward
<1>6. QED
  BY <1>1, <1>2, <1>3, <1>4, <1>5

LEMMA CourseUploads ==
    ASSUME Hand(h), Course(h),
           \/ TooLargeByMetadata \/ GetFile \/ Downloaded \/ UploadFails
           \/ CookieRefused \/ CookieStored \/ MessageDeleted \/ DeleteFails
    PROVE  Course(h')
<1>0. Busy(h) /\ h.pc \notin {"answer", "read"}
  BY DEF TooLargeByMetadata, GetFile, Downloaded, UploadFails, CookieRefused, CookieStored,
     MessageDeleted, DeleteFails, At, Busy
<1>1. CASE UploadFails \/ CookieRefused
  <2>1. PICK x \in {h, Faulty}, text \in {"internal", "refused"} : h' = Raised(x, text)
    BY <1>1 DEF UploadFails, CookieRefused, Apology
  <2>2. Hand(x) /\ Carries(h, x) /\ x.final = h.final
    BY DEF Hand, Faulty, Carries
  <2>3. QED
    BY <1>0, <2>1, <2>2, CourseRaised
<1>2. CASE TooLargeByMetadata \/ GetFile \/ Downloaded
  <2>1. Says("too large") \/ To("download") \/ To("store")
    BY <1>2 DEF TooLargeByMetadata, GetFile, Downloaded
  <2>2. h'.pc \in {"reply", "download", "store"} /\ Carries(h, h') /\ h'.final = h.final
    <3>1. CASE Says("too large")
      BY <3>1 DEF Says, Hand, Carries
    <3>2. CASE To("download") \/ To("store")
      BY <3>2 DEF To, Hand, Carries
    <3>3. QED
      BY <2>1, <3>1, <3>2
  <2>3. QED
    BY <1>0, <2>2, CourseOnward
<1>3. CASE CookieStored
  <2>1. h'.pc = "delete" /\ Carries(h, h') /\ h'.final = h.final
    BY <1>3 DEF CookieStored, Hand, Carries
  <2>2. QED
    BY <1>0, <2>1, CourseOnward
<1>4. CASE MessageDeleted
  <2>1. h'.pc = "reply" /\ Carries(h, h') /\ h'.final = h.final
    BY <1>4 DEF MessageDeleted, Hand, Carries
  <2>2. QED
    BY <1>0, <2>1, CourseOnward
<1>5. CASE DeleteFails
  <2>1. PICK gone \in BOOLEAN :
          h' = [h EXCEPT !.pc = "reply", !.text = "done", !.deleted = gone, !.faulty = TRUE]
    BY <1>5 DEF DeleteFails
  <2>2. h'.pc = "reply" /\ Carries(h, h') /\ h'.final = h.final
    BY <2>1 DEF Hand, Carries
  <2>3. QED
    BY <1>0, <2>2, CourseOnward
<1>6. QED
  BY <1>1, <1>2, <1>3, <1>4, <1>5

LEMMA CourseAnswers ==
    ASSUME Hand(h), Course(h), h.final \in BOOLEAN, Answers \/ AnswerFails
    PROVE  Course(h')
<1>0. /\ h.pc = "answer" /\ h.work = "page"
      /\ IF h.final THEN h.faulty ELSE h.answers = 0 /\ ~h.answered
  BY DEF Answers, AnswerFails, At, Course, CourseOfCommand, CourseOfPress
<1>1. CASE Answers
  <2> DEFINE pc == CASE h.final -> "done"
                     [] ~h.final /\ h.verdict # "allowed" -> "reply"
                     [] ~h.final /\ h.verdict = "allowed" /\ ~h.fresh -> "done"
                     [] OTHER -> "read"
  <2>1. IF h.final THEN pc = "done" ELSE pc \in {"done", "reply", "read"}
    OBVIOUS
  <2>2. h' = [h EXCEPT !.answers = @ + 1, !.answered = TRUE, !.pc = pc]
    BY <1>1 DEF Answers
  <2> HIDE DEF pc
  <2>3. /\ h'.pc = pc /\ h'.work = "page" /\ h'.answers = h.answers + 1
        /\ h'.answered = TRUE /\ h'.final = h.final /\ h'.faulty = h.faulty
    BY <1>0, <2>2 DEF Hand
  <2>4. QED
    BY <1>0, <2>1, <2>3 DEF Course, CourseOfPress
<1>2. CASE AnswerFails
  <2>0. PICK n \in {0, 1} : h' = Raised([Faulty EXCEPT !.answers = @ + n], "internal")
    BY <1>2 DEF AnswerFails, Apology
  <2>1. PICK x \in {[Faulty EXCEPT !.answers = @ + n]} : h' = Raised(x, "internal")
    BY <2>0
  <2>2. PICK y \in {Faulty} : x = [y EXCEPT !.answers = y.answers + n]
    BY <2>1
  <2>3. /\ Hand(y) /\ y.work = h.work /\ y.answers = h.answers /\ y.answered = h.answered
        /\ y.final = h.final /\ y.faulty = TRUE
    BY <2>2 DEF Hand, Faulty
  <2>4. /\ Hand(x) /\ x.work = h.work /\ x.answers = h.answers + n
        /\ x.answered = h.answered /\ x.final = h.final /\ x.faulty = TRUE
    BY <2>2, <2>3 DEF Hand
  <2>5. /\ Carries(x, h') /\ h'.final = TRUE
        /\ h'.pc = IF x.final THEN "done"
                   ELSE IF x.work = "page" THEN IF x.answered THEN "done" ELSE "answer"
                   ELSE "reply"
    BY <2>1, <2>4, RaisedCarries
  <2>6. /\ h'.work = "page" /\ h'.faulty /\ h'.pc \in {"done", "answer"}
    BY <1>0, <2>4, <2>5 DEF Carries
  <2>7. QED
    BY <2>5, <2>6 DEF Course, CourseOfPress
<1>3. QED
  BY <1>1, <1>2

LEMMA CourseEnds ==
    ASSUME Hand(h), Course(h), h.final \in BOOLEAN, Finish \/ Cancelled \/ Tick
    PROVE  Course(h')
<1>1. CASE Finish
  BY <1>1 DEF Finish, Idle, Course, CourseOfCommand, Busy
<1>2. CASE Cancelled
  <2>1. /\ h'.pc = "done" /\ h'.work = h.work /\ h'.answers = h.answers
        /\ h'.final = h.final /\ h'.cancelled = TRUE
    BY <1>2 DEF Cancelled, Hand
  <2>2. h.pc \notin {"idle", "done"}
    BY <1>2 DEF Cancelled
  <2>3. CASE h.work = "page"
    BY <2>1, <2>2, <2>3 DEF Course, CourseOfPress
  <2>4. CASE h.work # "page"
    BY <2>1, <2>4 DEF Course, CourseOfCommand, Busy
  <2>5. QED
    BY <2>3, <2>4
<1>3. CASE Tick
  <2>1. h'.pc = h.pc /\ Carries(h, h') /\ h'.final = h.final /\ h'.faulty = h.faulty
    BY <1>3 DEF Tick, Hand, Carries
  <2>2. QED
    BY <2>1 DEF Course, CourseOfPress, CourseOfCommand, Busy, Carries
<1>4. QED
  BY <1>1, <1>2, <1>3

LEMMA CourseStarts ==
    ASSUME BotInv, Updates
    PROVE  Course(h')
<1>1. PICK work, c, next :
       /\ work \in Works /\ c \in Caller /\ Fresh(next) /\ Takes(work, c, next)
  BY Starting
<1>2. /\ Fresh(h') /\ h'.work = work
      /\ h'.pc \in {"reply", "read", "look", "service", "get", "answer"}
      /\ h'.pc = "answer" <=> work = "page"
  BY <1>1, Arrival
<1>3. QED
  BY <1>2 DEF Fresh, Course, CourseOfPress, CourseOfCommand, Busy

LEMMA CourseInitially == Init => Course(h)
BY DEF Init, Idle, Course, CourseOfCommand, Busy

LEMMA CourseKept ==
    BotInv /\ Reports(h) /\ Course(h) /\ [Next]_vars => Course(h)'
<1> SUFFICES ASSUME BotInv, Reports(h), Course(h), [Next]_vars PROVE Course(h')
  OBVIOUS
<1>1. Hand(h) /\ h.final \in BOOLEAN /\ h.text \in Texts
  BY DEF BotInv, Reports, Known
<1>2. CASE Updates
  BY <1>2, CourseStarts
<1>3. CASE Handling
  BY <1>1, <1>3, CourseSends, CourseServes, CourseUploads, CourseAnswers, CourseEnds
     DEF Handling
<1>4. CASE Cancelled \/ Tick
  BY <1>1, <1>4, CourseEnds
<1>5. CASE Elsewhere \/ UNCHANGED vars
  <2>1. h' = h
    BY <1>5 DEF Elsewhere, vars
  <2>2. QED
    BY <2>1
<1>6. QED
  BY <1>2, <1>3, <1>4, <1>5 DEF Next

(***************************************************************************)
(* Every command gets one reply, whatever a service or the markup of a     *)
(* message fails at (bot/dispatcher.py:405), short of Telegram itself and  *)
(* of a shutdown.                                                          *)
(***************************************************************************)
THEOREM CommandsAreReplied == Spec => []OneReply
<1>1. Course(h) => OneReply
  BY DEF Course, CourseOfCommand, OneReply, At
<1>2. QED
  BY BotInvInitially, BotInvKept, ReportsInitially, ReportsKept, CourseInitially, CourseKept,
     <1>1, PTL DEF Spec

(***************************************************************************)
(* A callback is answered exactly once on every path (dispatcher.py:604),  *)
(* unless the first answer itself has raised.                              *)
(***************************************************************************)
THEOREM PressesAreAnswered == Spec => []OneAnswer
<1>1. Course(h) => OneAnswer
  BY DEF Course, CourseOfPress, OneAnswer, At
<1>2. QED
  BY BotInvInitially, BotInvKept, ReportsInitially, ReportsKept, CourseInitially, CourseKept,
     <1>1, PTL DEF Spec

-----------------------------------------------------------------------------
(***************************************************************************)
(* Wherever a press leads, the page that is shown exists: what is shown is *)
(* a page of accounts, of a number of pages, and the accounts a function.  *)
(***************************************************************************)
AccountsShape == accounts \in [DOMAIN accounts -> BOOLEAN]
SheetTyped(p) ==
    /\ p.page \in Nat /\ p.total \in Nat /\ p.page <= p.total
    /\ ToSet(p.rows) \subseteq Accounts /\ Len(p.rows) <= PageSize
    /\ (p.total > 0) <=> (p.rows # <<>>)
PagesNumbered ==
    /\ SheetTyped(screen) /\ SheetTyped(h.shown)
    /\ h.work \in {"list", "page"} => h.target \in Nat

(* A page that the list has shows some of its accounts and no other.       *)
LEMMA SheetShows ==
    ASSUME AccountsOK, NEW q \in Nat, q < Pages, NEW s, s = Sheet(q, Pages)
    PROVE  s.rows # <<>> /\ ToSet(s.rows) \subseteq DOMAIN accounts /\ Len(s.rows) <= PageSize
<1>1. /\ Pages \in Nat /\ Len(Sorted) \in Nat /\ PageSize \in Nat \ {0}
      /\ Sorted \in Seq(DOMAIN accounts)
  BY PagesCover, SortedLists, BotAssumption
<1>2. PICK k \in Nat : /\ k = q * PageSize /\ k < Len(Sorted)
                       /\ (q + 1) * PageSize = k + PageSize
  <2>1. q * PageSize \in Nat /\ (q + 1) * PageSize = q * PageSize + PageSize
    BY <1>1, Multiples
  <2>2. q * PageSize < Len(Sorted)
    BY PagesCover
  <2>3. QED
    BY <2>1, <2>2
<1>3. PICK n \in k + 1..Len(Sorted) :
         n = Min({Len(Sorted), (q + 1) * PageSize}) /\ n <= k + PageSize
  <2>1. (q + 1) * PageSize \in Nat /\ k + 1 <= (q + 1) * PageSize
    BY <1>1, <1>2
  <2>2. /\ Min({Len(Sorted), (q + 1) * PageSize}) \in k + 1..Len(Sorted)
        /\ Min({Len(Sorted), (q + 1) * PageSize}) <= k + PageSize
    BY <1>1, <1>2, <2>1, MinOfTwo
  <2>3. QED
    BY <2>2
<1>4. s.rows = SubSeq(Sorted, k + 1, n)
  <2>1. s.rows = SubSeq(Sorted, q * PageSize + 1, Min({Len(Sorted), (q + 1) * PageSize}))
    BY SheetShape
  <2>2. QED
    BY <1>2, <1>3, <2>1
<1>5. s.rows \in Seq(DOMAIN accounts) /\ Len(s.rows) = n - (k + 1) + 1
  <2>1. \A i \in k + 1..n : Sorted[i] \in DOMAIN accounts
    BY <1>1, <1>2, <1>3
  <2>2. k + 1 \in Int /\ n \in Int /\ k + 1 <= n
    BY <1>1, <1>3
  <2>3. /\ SubSeq(Sorted, k + 1, n) \in Seq(DOMAIN accounts)
        /\ Len(SubSeq(Sorted, k + 1, n)) = IF k + 1 <= n THEN n - (k + 1) + 1 ELSE 0
    BY <2>1, <2>2, SubSeqProperties
  <2>4. QED
    BY <1>4, <2>2, <2>3
<1>6. s.rows # <<>> /\ Len(s.rows) <= PageSize
  <2>1. n \in Nat /\ n - (k + 1) + 1 > 0 /\ n - (k + 1) + 1 <= PageSize
    BY <1>1, <1>3
  <2>2. Len(s.rows) > 0 /\ Len(s.rows) <= PageSize
    BY <1>5, <2>1
  <2>3. QED
    BY <2>2
<1>7. QED
  BY <1>5, <1>6 DEF ToSet

LEMMA NoPageTyped == SheetTyped(NoPage)
<1>1. Len(<<>>) = 0 /\ ToSet(<<>>) = {} /\ PageSize \in Nat
  BY BotAssumption DEF ToSet
<1>2. QED
  BY <1>1 DEF SheetTyped, NoPage

LEMMA RenderedNumbered ==
    ASSUME AccountsOK, NEW p \in Nat
    PROVE  /\ SheetTyped(Rendered(p))
           /\ Sorted # <<>> => \E q \in Nat : q < Pages /\ Rendered(p) = Sheet(q, Pages)
<1>1. Pages \in Nat /\ Len(Sorted) \in Nat /\ PageSize \in Nat
  BY PagesCover, BotAssumption
<1>2. CASE Sorted = <<>>
  BY <1>2, NoPageTyped DEF Rendered
<1>3. CASE Sorted # <<>>
  <2>1. 0 < Pages
    <3>1. 0 * PageSize = 0 /\ Len(Sorted) # 0
      BY <1>1, <1>3, SortedLists
    <3>2. QED
      BY <1>1, <3>1, PagesCover
  <2>2. PICK q \in Nat : q = Min({p, Pages - 1}) /\ q < Pages
    BY <1>1, <2>1, MinOfTwo
  <2>3. Rendered(p) = Sheet(q, Pages)
    BY <1>3, <2>2 DEF Rendered
  <2>4. PICK s : s = Sheet(q, Pages)
    OBVIOUS
  <2>5. s.rows # <<>> /\ ToSet(s.rows) \subseteq DOMAIN accounts /\ Len(s.rows) <= PageSize
    BY <2>2, <2>4, SheetShows
  <2>6. s.page = q /\ s.total = Pages
    BY <2>4 DEF Sheet
  <2>7. SheetTyped(s)
    BY <1>1, <2>2, <2>5, <2>6 DEF SheetTyped, AccountsOK
  <2>8. QED
    BY <2>2, <2>3, <2>4, <2>7
<1>4. QED
  BY <1>2, <1>3

LEMMA ShapeKept ==
    ASSUME AccountsShape, [Next]_vars
    PROVE  AccountsShape'
<1>1. CASE ServiceDone
  <2>1. CASE h.work = "add"
    BY <1>1, <2>1 DEF ServiceDone, Added, AccountsShape
  <2>2. CASE h.work = "remove"
    BY <1>1, <2>2 DEF ServiceDone, Removed, AccountsShape
  <2>3. CASE h.work \in {"pause", "resume"}
    BY <1>1, <2>3 DEF ServiceDone, AccountsShape
  <2>4. CASE h.work \notin {"add", "remove", "pause", "resume"}
    BY <1>1, <2>4 DEF ServiceDone, AccountsShape
  <2>5. QED
    BY <2>1, <2>2, <2>3, <2>4
<1>2. CASE Elsewhere
  <2>1. PICK a : accounts' = Removed(a) \/ accounts' = Added(a)
    BY <1>2 DEF Elsewhere
  <2>2. QED
    BY <2>1 DEF Added, Removed, AccountsShape
<1>3. CASE UNCHANGED accounts
  BY <1>3 DEF AccountsShape
<1>4. ASSUME NEW work, NEW c, NEW next, Takes(work, c, next)
      PROVE  UNCHANGED accounts
  BY <1>4 DEF Takes
<1>5. CASE Updates
  BY <1>3, <1>4, <1>5 DEF Updates, Command, PressNext, PressOld
<1>6. CASE Handling /\ ~ServiceDone
  BY <1>3, <1>6 DEF Handling, Delivered, MarkupRejected, SendFails, ServiceFails, ReadForReply,
     ReadPage, LookUpAccount, ServiceRefuses, TooLargeByMetadata, GetFile,
     Downloaded, UploadFails, CookieRefused, CookieStored, MessageDeleted, DeleteFails,
     Answers, AnswerFails, Finish, KeepButSending, KeepButHand, KeepButUpload
<1>7. CASE Cancelled \/ Tick \/ UNCHANGED vars
  BY <1>3, <1>7 DEF Cancelled, Tick, KeepButSending, vars
<1>8. QED
  BY <1>1, <1>2, <1>5, <1>6, <1>7 DEF Next

(* A step that neither shows a page nor takes an update in hand.           *)
LEMMA NumberedAside ==
    ASSUME PagesNumbered, screen' = screen, h'.work = h.work,
           h'.target = h.target, h'.shown = h.shown
    PROVE  PagesNumbered'
BY DEF PagesNumbered, SheetTyped

LEMMA NumberedSends ==
    ASSUME BotInv, PagesNumbered, Delivered \/ MarkupRejected \/ SendFails
    PROVE  PagesNumbered'
<1> USE DEF BotInv
<1>1. SameAim(h, h')
  <2>1. CASE Delivered
    <3>1. PICK x \in {h, Reaches(h)} : h' = [x EXCEPT !.pc = "done"]
      BY <2>1 DEF Delivered
    <3>2. Hand(x) /\ SameAim(h, x)
      BY DEF Hand, Reaches, SameAim
    <3>3. QED
      BY <3>1, <3>2 DEF Hand, SameAim
  <2>2. CASE MarkupRejected
    BY <2>2 DEF MarkupRejected, To, Hand, SameAim
  <2>3. CASE SendFails
    <3>1. PICK x \in {Faulty, Reaches(Faulty)} : h' = Raised(x, "internal")
      BY <2>3 DEF SendFails, Apology
    <3>2. Hand(x) /\ SameAim(h, x)
      BY <3>1 DEF Hand, Faulty, Reaches, SameAim
    <3>3. QED
      BY <3>1, <3>2, RaisedAim DEF SameAim
  <2>4. QED
    BY <2>1, <2>2, <2>3
<1>2. screen' \in {screen, h.shown}
  BY DEF Delivered, MarkupRejected, SendFails
<1>3. QED
  BY <1>1, <1>2 DEF PagesNumbered, SheetTyped, SameAim

LEMMA NumberedServes ==
    ASSUME BotInv, PagesNumbered, AccountsOK,
           \/ ServiceFails \/ ReadForReply \/ ReadPage \/ LookUpAccount
           \/ ServiceDone \/ ServiceRefuses
    PROVE  PagesNumbered'
<1> USE DEF BotInv
<1>0. UNCHANGED screen
  BY DEF ServiceFails, ReadForReply, ReadPage, LookUpAccount, ServiceDone, ServiceRefuses,
     KeepButHand, KeepButService
<1>1. CASE ServiceFails \/ ServiceRefuses
  <2>1. PICK text \in {"internal", "refused"} : h' = Raised(h, text)
    BY <1>1 DEF ServiceFails, ServiceRefuses, Apology
  <2>2. QED
    BY <1>0, <2>1, RaisedAim, NumberedAside DEF SameAim
<1>2. CASE ReadForReply
  <2>1. SameAim(h, h')
    BY <1>2 DEF ReadForReply, Says, Hand, SameAim
  <2>2. QED
    BY <1>0, <2>1, NumberedAside DEF SameAim
<1>3. CASE ReadPage
  <2>1. PICK shown \in {Rendered(h.target)} :
          h' = [h EXCEPT !.pc = "reply", !.text = "page", !.shown = shown]
    BY <1>3 DEF ReadPage
  <2>2. h'.work = h.work /\ h'.target = h.target /\ h'.shown = Rendered(h.target)
    BY <2>1 DEF Hand
  <2>3. h.work \in {"list", "page"}
    BY <1>3 DEF ReadPage
  <2>4. SheetTyped(h'.shown)
    BY <2>2, <2>3, RenderedNumbered DEF PagesNumbered
  <2>5. QED
    BY <1>0, <2>2, <2>4 DEF PagesNumbered, SheetTyped
<1>4. CASE LookUpAccount
  <2>1. PICK already : h' = [h EXCEPT !.pc = "service", !.already = already]
    BY <1>4 DEF LookUpAccount
  <2>2. SameAim(h, h')
    BY <2>1 DEF Hand, SameAim
  <2>3. QED
    BY <1>0, <2>2, NumberedAside DEF SameAim
<1>5. CASE ServiceDone
  <2>1. PICK text : h' = [h EXCEPT !.pc = "reply", !.text = text, !.effect = TRUE]
    BY <1>5 DEF ServiceDone
  <2>2. SameAim(h, h')
    BY <2>1 DEF Hand, SameAim
  <2>3. QED
    BY <1>0, <2>2, NumberedAside DEF SameAim
<1>6. QED
  BY <1>1, <1>2, <1>3, <1>4, <1>5

LEMMA NumberedUploads ==
    ASSUME BotInv, PagesNumbered,
           \/ TooLargeByMetadata \/ GetFile \/ Downloaded \/ UploadFails
           \/ CookieRefused \/ CookieStored \/ MessageDeleted \/ DeleteFails
    PROVE  PagesNumbered'
<1> USE DEF BotInv
<1>0. UNCHANGED screen
  BY DEF TooLargeByMetadata, GetFile, Downloaded, UploadFails, CookieRefused, CookieStored,
     MessageDeleted, DeleteFails, KeepButUpload
<1>1. SameAim(h, h')
  <2>1. CASE UploadFails \/ CookieRefused
    <3>1. PICK x \in {h, Faulty}, text \in {"internal", "refused"} : h' = Raised(x, text)
      BY <2>1 DEF UploadFails, CookieRefused, Apology
    <3>2. Hand(x) /\ SameAim(h, x)
      BY DEF Hand, Faulty, SameAim
    <3>3. QED
      BY <3>1, <3>2, RaisedAim DEF SameAim
  <2>2. CASE TooLargeByMetadata \/ GetFile \/ Downloaded
    <3>1. Says("too large") \/ To("download") \/ To("store")
      BY <2>2 DEF TooLargeByMetadata, GetFile, Downloaded
    <3>2. CASE Says("too large")
      BY <3>2 DEF Says, Hand, SameAim
    <3>3. CASE To("download") \/ To("store")
      BY <3>3 DEF To, Hand, SameAim
    <3>4. QED
      BY <3>1, <3>2, <3>3
  <2>3. CASE CookieStored
    BY <2>3 DEF CookieStored, Hand, SameAim
  <2>4. CASE MessageDeleted
    BY <2>4 DEF MessageDeleted, Hand, SameAim
  <2>5. CASE DeleteFails
    <3>1. PICK gone \in BOOLEAN :
            h' = [h EXCEPT !.pc = "reply", !.text = "done", !.deleted = gone, !.faulty = TRUE]
      BY <2>5 DEF DeleteFails
    <3>2. QED
      BY <3>1 DEF Hand, SameAim
  <2>6. QED
    BY <2>1, <2>2, <2>3, <2>4, <2>5
<1>2. QED
  BY <1>0, <1>1, NumberedAside DEF SameAim

LEMMA NumberedAnswers ==
    ASSUME BotInv, PagesNumbered, Answers \/ AnswerFails
    PROVE  PagesNumbered'
<1> USE DEF BotInv
<1>0. UNCHANGED screen
  BY DEF Answers, AnswerFails, KeepButHand
<1>1. SameAim(h, h')
  <2>1. CASE Answers
    <3>1. PICK pc : h' = [h EXCEPT !.answers = @ + 1, !.answered = TRUE, !.pc = pc]
      BY <2>1 DEF Answers
    <3>2. QED
      BY <3>1 DEF Hand, SameAim
  <2>2. CASE AnswerFails
    <3>0. PICK n \in {0, 1} : h' = Raised([Faulty EXCEPT !.answers = @ + n], "internal")
      BY <2>2 DEF AnswerFails, Apology
    <3>1. PICK x \in {[Faulty EXCEPT !.answers = @ + n]} : h' = Raised(x, "internal")
      BY <3>0
    <3>2. PICK y \in {Faulty} : \E m : x = [y EXCEPT !.answers = m]
      BY <3>1
    <3>3. Hand(y) /\ SameAim(h, y)
      BY <3>2 DEF Hand, Faulty, SameAim
    <3>4. Hand(x) /\ SameAim(h, x)
      BY <3>2, <3>3 DEF Hand, SameAim
    <3>5. QED
      BY <3>1, <3>4, RaisedAim DEF SameAim
  <2>3. QED
    BY <2>1, <2>2
<1>2. QED
  BY <1>0, <1>1, NumberedAside DEF SameAim

LEMMA NumberedEnds ==
    ASSUME WalkInv, BotInv, PagesNumbered, Finish \/ Cancelled \/ Tick
    PROVE  PagesNumbered'
<1>1. CASE Finish
  <2>1. h'.work = "none" /\ h'.shown = NoPage /\ UNCHANGED screen
    BY <1>1 DEF Finish, KeepButHand, Idle
  <2>2. QED
    BY <2>1, NoPageTyped DEF PagesNumbered, SheetTyped
<1>2. CASE Cancelled
  <2>1. SameAim(h, h') /\ UNCHANGED screen
    BY <1>2 DEF Cancelled, BotInv, Hand, SameAim
  <2>2. QED
    BY <2>1, NumberedAside DEF SameAim
<1>3. CASE Tick
  <2>1. /\ screen' = OlderPage(screen) /\ h' = [h EXCEPT !.shown = OlderPage(h.shown)]
    BY <1>3 DEF Tick
  <2>2. h'.work = h.work /\ h'.target = h.target /\ h'.shown = OlderPage(h.shown)
    BY <2>1 DEF BotInv, Hand
  <2>3. ASSUME NEW p, Page(p), SheetTyped(p) PROVE SheetTyped(OlderPage(p))
    BY <2>3, OlderShape DEF SheetTyped
  <2>4. SheetTyped(screen)' /\ SheetTyped(h.shown)'
    BY <2>1, <2>2, <2>3 DEF WalkInv, Aims, PagesNumbered, SheetTyped
  <2>5. QED
    BY <2>2, <2>4 DEF PagesNumbered
<1>4. QED
  BY <1>1, <1>2, <1>3

LEMMA NumberedStarts ==
    ASSUME BotInv, PagesNumbered, Updates
    PROVE  PagesNumbered'
<1>1. PICK work, c, next : /\ work \in Works /\ c \in Caller /\ Fresh(next)
                           /\ Aimed(work, next) /\ Takes(work, c, next)
  BY Starting
<1>2. h'.work = work /\ h'.target = next.target /\ h'.shown = NoPage
  BY <1>1, Arrival DEF Aimed
<1>3. UNCHANGED screen
  BY <1>1 DEF Takes
<1>4. work \in {"list", "page"} => next.target \in Nat
  BY <1>1 DEF Aimed, PagesNumbered, SheetTyped
<1>5. QED
  BY <1>2, <1>3, <1>4, NoPageTyped DEF PagesNumbered, SheetTyped

LEMMA PressInitially == Init => AccountsShape /\ PagesNumbered
<1> SUFFICES ASSUME Init PROVE AccountsShape /\ PagesNumbered
  OBVIOUS
<1>1. PICK S \in SUBSET Accounts : accounts \in [S -> {FALSE}]
  BY DEF Init
<1>2. AccountsShape
  BY <1>1 DEF AccountsShape
<1>3. PagesNumbered
  BY NoPageTyped DEF Init, Idle, PagesNumbered
<1>4. QED
  BY <1>2, <1>3

LEMMA PressKept ==
    BotInv /\ WalkInv /\ AccountsShape /\ PagesNumbered /\ [Next]_vars
        => AccountsShape' /\ PagesNumbered'
<1> SUFFICES ASSUME BotInv, WalkInv, AccountsShape, PagesNumbered, [Next]_vars
             PROVE  PagesNumbered'
  BY ShapeKept
<1>1. CASE Updates
  BY <1>1, NumberedStarts
<1>2. CASE Handling
  BY <1>2, NumberedSends, NumberedServes, NumberedUploads, NumberedAnswers, NumberedEnds
     DEF Handling, WalkInv
<1>3. CASE Cancelled \/ Tick
  BY <1>3, NumberedEnds
<1>4. CASE Elsewhere \/ UNCHANGED vars
  <2>1. UNCHANGED <<screen, h>>
    BY <1>4 DEF Elsewhere, vars
  <2>2. QED
    BY <2>1 DEF PagesNumbered, SheetTyped
<1>5. QED
  BY <1>1, <1>2, <1>3, <1>4 DEF Next

(***************************************************************************)
(* Only reading a page leads from "read" to the reply with a page.         *)
(***************************************************************************)
LEMMA OnlyReadPage ==
    ASSUME BotInv, [Next]_vars, h.pc = "read", h'.pc = "reply", h'.text = "page"
    PROVE  ReadPage
<1> USE DEF BotInv
<1>1. ~Updates
  <2>1. SUFFICES ASSUME Updates PROVE FALSE
    OBVIOUS
  <2>2. PICK work, c, next : Takes(work, c, next)
    BY <2>1, Starting
  <2>3. QED
    BY <2>2 DEF Takes, At
<1>2. CASE Handling
  <2>1. CASE ServiceFails
    <3>1. h' = Raised(h, "internal")
      BY <2>1 DEF ServiceFails, Apology
    <3>2. QED
      BY <3>1, RaisedAim
  <2>2. CASE ReadForReply
    BY <2>2 DEF ReadForReply, Says, Hand
  <2>3. CASE Finish
    BY <2>3 DEF Finish, At
  <2>4. ~(Delivered \/ MarkupRejected \/ SendFails \/ LookUpAccount \/ ServiceDone
          \/ ServiceRefuses \/ TooLargeByMetadata \/ GetFile \/ Downloaded \/ UploadFails
          \/ CookieRefused \/ CookieStored \/ MessageDeleted \/ DeleteFails
          \/ Answers \/ AnswerFails)
    BY DEF Delivered, MarkupRejected, SendFails, LookUpAccount, ServiceDone, ServiceRefuses,
       TooLargeByMetadata, GetFile, Downloaded, UploadFails, CookieRefused, CookieStored,
       MessageDeleted, DeleteFails, Answers, AnswerFails, At
  <2>5. QED
    BY <1>2, <2>1, <2>2, <2>3, <2>4 DEF Handling
<1>3. ~Cancelled
  BY DEF Cancelled, Hand
<1>4. ~Elsewhere /\ ~UNCHANGED vars
  BY DEF Elsewhere, vars
<1>5. ~Tick
  BY DEF Tick, Hand
<1>6. QED
  BY <1>1, <1>2, <1>3, <1>4, <1>5 DEF Next

(***************************************************************************)
(* A press never leads beyond the list, though it has become shorter since *)
(* the button was made (bot/pagination.py:34): as long as there are        *)
(* accounts, some are shown, and no other.                                 *)
(***************************************************************************)
THEOREM PressesStayInList == Spec => ShownIsThere
<1> DEFINE Step == At("read") /\ At("reply")' /\ h'.text = "page" /\ accounts # <<>>
                       => h'.shown.rows # <<>> /\ ToSet(h'.shown.rows) \subseteq DOMAIN accounts
<1>1. ASSUME BotInv, WalkInv, AccountsShape, PagesNumbered, [Next]_vars PROVE Step
  <2> SUFFICES ASSUME h.pc = "read", h'.pc = "reply", h'.text = "page", accounts # <<>>
               PROVE  h'.shown.rows # <<>> /\ ToSet(h'.shown.rows) \subseteq DOMAIN accounts
    BY DEF At
  <2>1. ReadPage
    BY <1>1, OnlyReadPage
  <2>2. PICK shown \in {Rendered(h.target)} :
          h' = [h EXCEPT !.pc = "reply", !.text = "page", !.shown = shown]
    BY <2>1 DEF ReadPage
  <2>3. h'.shown = Rendered(h.target)
    BY <1>1, <2>2 DEF BotInv, Hand
  <2>4. h.target \in Nat /\ AccountsOK
    BY <1>1, <2>1 DEF ReadPage, PagesNumbered, WalkInv
  <2>5. Sorted # <<>>
    <3>1. DOMAIN accounts # {}
      <4>1. SUFFICES ASSUME DOMAIN accounts = {} PROVE FALSE
        OBVIOUS
      <4>2. accounts = [a \in {} |-> accounts[a]]
        BY <1>1, <4>1 DEF AccountsShape
      <4>3. accounts = <<>>
        BY <4>2
      <4>4. QED
        BY <4>3
    <3>2. ToSet(Sorted) = DOMAIN accounts
      BY <2>4, SortedLists
    <3>3. Sorted = <<>> => ToSet(Sorted) = {}
      BY DEF ToSet
    <3>4. QED
      BY <3>1, <3>2, <3>3
  <2>6. PICK q \in Nat : q < Pages /\ h'.shown = Sheet(q, Pages)
    BY <2>3, <2>4, <2>5, RenderedNumbered
  <2>7. QED
    BY <2>4, <2>6, SheetShows
<1>2. QED
  BY BotInvInitially, BotInvKept, WalkInvInitially, WalkInvKept, PressInitially, PressKept,
     <1>1, PTL DEF Spec, ShownIsThere
-----------------------------------------------------------------------------
(***************************************************************************)
(* The attempts that count.  What the loop over a window keeps is shown by *)
(* induction over its length, in the set form of LeastElement.             *)
(***************************************************************************)
LEMMA InductionUpTo ==
    ASSUME NEW n \in Nat, NEW T, 0 \in T, \A m \in 0..(n - 1) : m \in T => m + 1 \in T
    PROVE  0..n \subseteq T
<1> SUFFICES ASSUME NEW k \in 0..n, k \notin T PROVE FALSE
  OBVIOUS
<1>0. (0..n) \ T \in SUBSET Nat
  OBVIOUS
<1>1. PICK U \in SUBSET Nat : U = (0..n) \ T
  BY <1>0
<1>2. PICK x \in U : \A y \in U : x <= y
  BY <1>1, LeastElement
<1>3. x # 0 /\ x - 1 \in 0..(n - 1)
  BY <1>1
<1>4. x - 1 \in T
  BY <1>1, <1>2, <1>3
<1>5. QED
  BY <1>1, <1>3, <1>4

\* A set that has the empty sequence, and with a sequence each that is one
\* longer, has them all.
LEMMA SequencesUpTo ==
    ASSUME NEW S, NEW T, <<>> \in T,
           \A s \in Seq(S), e \in S : s \in T => Append(s, e) \in T
    PROVE  Seq(S) \subseteq T
<1> SUFFICES ASSUME NEW s \in Seq(S) PROVE s \in T
  OBVIOUS
<1>0. Len(s) \in Nat
  OBVIOUS
<1> DEFINE N == {n \in 0..Len(s) : SubSeq(s, 1, n) \in T}
<1>1. \A n \in 0..Len(s) : n \in N <=> SubSeq(s, 1, n) \in T
  OBVIOUS
<1> HIDE DEF N
<1>2. 0 \in N
  <2>1. SubSeq(s, 1, 0) = <<>> /\ 0 \in 0..Len(s)
    BY <1>0, SubSeqEmpty
  <2>2. QED
    BY <1>1, <2>1
<1>3. ASSUME NEW m \in 0..(Len(s) - 1), m \in N PROVE m + 1 \in N
  <2>1. m \in 0..Len(s) /\ m + 1 \in 1..Len(s) /\ m + 1 \in 0..Len(s)
    BY <1>0
  <2>2. PICK q : q = SubSeq(s, 1, m)
    OBVIOUS
  <2>3. q \in Seq(S) /\ s[m + 1] \in S
    BY <2>1, <2>2
  <2>4. SubSeq(s, 1, m + 1) = Append(q, s[m + 1])
    BY <1>0, <2>1, <2>2
  <2>5. QED
    BY <1>1, <1>3, <2>1, <2>2, <2>3, <2>4
<1>4. 0..Len(s) \subseteq N
  BY <1>0, <1>2, <1>3, InductionUpTo
<1>5. SubSeq(s, 1, Len(s)) = s /\ Len(s) \in 0..Len(s)
  BY <1>0
<1>6. QED
  BY <1>1, <1>4, <1>5

\* f is what the loop has kept after each of the first n attempts.
Keeps(f, ages, n) ==
    f = [i \in 0..n |->
            IF i = 0 THEN <<>>
            ELSE IF ages[i] < BurstWindow THEN Append(f[i - 1], ages[i]) ELSE f[i - 1]]

LEMMA KeepsExists ==
    ASSUME NEW s \in Seq(Nat)
    PROVE  \E f : Keeps(f, s, Len(s))
<1>0. Len(s) \in Nat
  OBVIOUS
<1>1. PICK T : T = {n \in 0..Len(s) : \E f : Keeps(f, s, n)}
  OBVIOUS
<1>2. 0 \in T
  <2>1. Keeps([i \in 0..0 |-> <<>>], s, 0)
    BY DEF Keeps
  <2>2. QED
    BY <1>0, <1>1, <2>1
<1>3. ASSUME NEW m \in 0..(Len(s) - 1), m \in T PROVE m + 1 \in T
  <2>1. PICK f : Keeps(f, s, m)
    BY <1>1, <1>3
  <2>2. PICK g : g = [i \in 0..(m + 1) |->
                        IF i <= m THEN f[i]
                        ELSE IF s[i] < BurstWindow THEN Append(f[i - 1], s[i]) ELSE f[i - 1]]
    OBVIOUS
  <2>3. \A i \in 0..m : g[i] = f[i]
    BY <2>2
  <2>4. \A i \in 0..m :
           f[i] = IF i = 0 THEN <<>>
                  ELSE IF s[i] < BurstWindow THEN Append(f[i - 1], s[i]) ELSE f[i - 1]
    BY <2>1 DEF Keeps
  <2>5. \A i \in 0..(m + 1) :
           g[i] = IF i = 0 THEN <<>>
                  ELSE IF s[i] < BurstWindow THEN Append(g[i - 1], s[i]) ELSE g[i - 1]
    BY <2>2, <2>3, <2>4
  <2>6. Keeps(g, s, m + 1)
    BY <2>2, <2>5 DEF Keeps
  <2>7. QED
    BY <1>0, <1>1, <2>6
<1>4. 0..Len(s) \subseteq T
  BY <1>0, <1>2, <1>3, InductionUpTo
<1>5. QED
  BY <1>0, <1>1, <1>4

LEMMA RecentKeeps ==
    ASSUME NEW s \in Seq(Nat)
    PROVE  \E f : Keeps(f, s, Len(s)) /\ Recent(s) = f[Len(s)]
BY KeepsExists DEF Recent, Keeps

\* One attempt more is kept, or not.
LEMMA RecentAppend ==
    ASSUME NEW s \in Seq(Nat), NEW e \in Nat
    PROVE  Recent(Append(s, e)) = IF e < BurstWindow THEN Append(Recent(s), e) ELSE Recent(s)
<1>0. /\ Len(s) \in Nat /\ Append(s, e) \in Seq(Nat) /\ Len(Append(s, e)) = Len(s) + 1
      /\ Append(s, e)[Len(s) + 1] = e /\ \A i \in 1..Len(s) : Append(s, e)[i] = s[i]
  OBVIOUS
<1>1. PICK f : Keeps(f, s, Len(s)) /\ Recent(s) = f[Len(s)]
  BY RecentKeeps
<1>2. PICK g : Keeps(g, Append(s, e), Len(s) + 1) /\ Recent(Append(s, e)) = g[Len(s) + 1]
  BY <1>0, RecentKeeps
<1>3. \A i \in 0..Len(s) :
         f[i] = IF i = 0 THEN <<>>
                ELSE IF s[i] < BurstWindow THEN Append(f[i - 1], s[i]) ELSE f[i - 1]
  BY <1>1 DEF Keeps
<1>4. \A i \in 0..(Len(s) + 1) :
         g[i] = IF i = 0 THEN <<>>
                ELSE IF Append(s, e)[i] < BurstWindow THEN Append(g[i - 1], Append(s, e)[i])
                ELSE g[i - 1]
  BY <1>2 DEF Keeps
<1>5. PICK T : T = {n \in 0..Len(s) : f[n] = g[n]}
  OBVIOUS
<1>6. 0 \in T
  BY <1>0, <1>3, <1>4, <1>5
<1>7. ASSUME NEW m \in 0..(Len(s) - 1), m \in T PROVE m + 1 \in T
  <2>1. f[m] = g[m] /\ s[m + 1] = Append(s, e)[m + 1]
    BY <1>0, <1>5, <1>7
  <2>2. f[m + 1] = IF s[m + 1] < BurstWindow THEN Append(f[m], s[m + 1]) ELSE f[m]
    BY <1>0, <1>3
  <2>3. g[m + 1] = IF s[m + 1] < BurstWindow THEN Append(g[m], s[m + 1]) ELSE g[m]
    BY <1>0, <1>4, <2>1
  <2>4. QED
    BY <1>0, <1>5, <2>1, <2>2, <2>3
<1>8. f[Len(s)] = g[Len(s)]
  <2>1. 0..Len(s) \subseteq T
    BY <1>0, <1>6, <1>7, InductionUpTo
  <2>2. QED
    BY <1>0, <1>5, <2>1
<1>9. g[Len(s) + 1] = IF e < BurstWindow THEN Append(g[Len(s)], e) ELSE g[Len(s)]
  BY <1>0, <1>4
<1>10. QED
  BY <1>1, <1>2, <1>8, <1>9

LEMMA RecentOfNone == Recent(<<>>) = <<>>
<1>1. <<>> \in Seq(Nat) /\ Len(<<>>) = 0
  OBVIOUS
<1>2. PICK f : Keeps(f, <<>>, 0) /\ Recent(<<>>) = f[0]
  BY <1>1, RecentKeeps
<1>3. QED
  BY <1>2 DEF Keeps

Ages == 0..BurstWindow
Aged(s) == [k \in DOMAIN s |-> Older(s[k], BurstWindow)]

LEMMA AgedAppend ==
    ASSUME NEW s \in Seq(Ages), NEW e \in Ages
    PROVE  /\ Aged(s) \in Seq(Ages) /\ Older(e, BurstWindow) \in Ages
           /\ Aged(Append(s, e)) = Append(Aged(s), Older(e, BurstWindow))
<1>0. BurstWindow \in Nat /\ Len(s) \in Nat /\ DOMAIN s = 1..Len(s)
  BY BotAssumption
<1>1. \A a \in Ages : Older(a, BurstWindow) \in Ages
  BY <1>0 DEF Ages, Older
<1>2. Aged(s) \in Seq(Ages) /\ Len(Aged(s)) = Len(s)
  BY <1>0, <1>1 DEF Aged
<1>3. \A i \in 1..Len(s) : Aged(s)[i] = Older(s[i], BurstWindow)
  BY <1>0 DEF Aged
<1>4. Append(s, e) \in Seq(Ages) /\ Len(Append(s, e)) = Len(s) + 1
  OBVIOUS
<1>5. DOMAIN Append(s, e) = 1..(Len(s) + 1)
  BY <1>0, <1>4
<1>6. Aged(Append(s, e)) = [k \in 1..(Len(s) + 1) |-> Older(Append(s, e)[k], BurstWindow)]
  BY <1>5 DEF Aged
<1>7. PICK q \in Seq(Ages), o \in Ages :
         q = Aged(s) /\ o = Older(e, BurstWindow) /\ Len(q) = Len(s)
  BY <1>1, <1>2
<1>8. /\ Append(q, o) \in Seq(Ages) /\ Len(Append(q, o)) = Len(s) + 1
      /\ \A k \in 1..Len(s) : Append(q, o)[k] = q[k]
      /\ Append(q, o)[Len(s) + 1] = o
  BY <1>0, <1>7, AppendProperties
<1>9. PICK t : t = Aged(Append(s, e))
  OBVIOUS
<1>10. t \in Seq(Ages) /\ Len(t) = Len(s) + 1
  <2>1. \A k \in 1..(Len(s) + 1) : Append(s, e)[k] \in Ages
    BY <1>0, <1>4
  <2>2. QED
    BY <1>0, <1>1, <1>6, <1>9, <2>1
<1>11. \A k \in 1..(Len(s) + 1) : t[k] = Append(q, o)[k]
  <2>1. \A k \in 1..Len(s) : Append(s, e)[k] = s[k]
    BY <1>0
  <2>2. Append(s, e)[Len(s) + 1] = e
    BY <1>0
  <2>3. \A k \in 1..(Len(s) + 1) : k = Len(s) + 1 \/ k \in 1..Len(s)
    BY <1>0
  <2>4. QED
    BY <1>0, <1>3, <1>6, <1>7, <1>8, <1>9, <2>1, <2>2, <2>3
<1>12. t = Append(q, o)
  BY <1>8, <1>10, <1>11, SeqEqual
<1>13. QED
  BY <1>2, <1>7, <1>9, <1>12

\* What was kept is kept again; and an attempt that is too old stays too old,
\* so it makes no difference whether it is dropped now or when time has passed.
RecentAgrees(s) ==
    /\ Recent(s) \in Seq(Ages)
    /\ Recent(Recent(s)) = Recent(s)
    /\ Recent(Aged(Recent(s))) = Recent(Aged(s))

LEMMA RecentIsStable ==
    ASSUME NEW s \in Seq(Ages)
    PROVE  RecentAgrees(s)
<1>0. BurstWindow \in Nat /\ Ages \subseteq Nat /\ Seq(Ages) \subseteq Seq(Nat)
  BY BotAssumption DEF Ages
<1>1. PICK T : T = {q \in Seq(Ages) : RecentAgrees(q)}
  OBVIOUS
<1>2. <<>> \in T
  <2>1. Aged(<<>>) = <<>> /\ <<>> \in Seq(Ages)
    BY DEF Aged
  <2>2. RecentAgrees(<<>>)
    BY <2>1, RecentOfNone DEF RecentAgrees
  <2>3. QED
    BY <1>1, <2>1, <2>2
<1>3. ASSUME NEW q \in Seq(Ages), NEW e \in Ages, q \in T PROVE Append(q, e) \in T
  <2>1. RecentAgrees(q) /\ Append(q, e) \in Seq(Ages) /\ q \in Seq(Nat) /\ e \in Nat
    BY <1>0, <1>1, <1>3
  <2>2. PICK r \in Seq(Ages) : r = Recent(q)
    BY <2>1 DEF RecentAgrees
  <2>3. Recent(r) = r /\ Recent(Aged(r)) = Recent(Aged(q))
    BY <2>1, <2>2 DEF RecentAgrees
  <2>4. Recent(Append(q, e)) = IF e < BurstWindow THEN Append(r, e) ELSE r
    BY <2>1, <2>2, RecentAppend
  <2>5. PICK o \in Ages : o = Older(e, BurstWindow)
    BY AgedAppend
  <2>6. /\ Aged(q) \in Seq(Nat) /\ Aged(r) \in Seq(Nat) /\ o \in Nat
        /\ Aged(Append(q, e)) = Append(Aged(q), o)
        /\ Aged(Append(r, e)) = Append(Aged(r), o)
    BY <1>0, <2>5, AgedAppend
  <2>7. CASE e < BurstWindow
    <3>1. Recent(Append(q, e)) = Append(r, e) /\ Append(r, e) \in Seq(Ages)
      BY <2>4, <2>7
    <3>2. Recent(Append(r, e)) = Append(r, e)
      <4>1. r \in Seq(Nat)
        BY <1>0
      <4>2. QED
        BY <2>1, <2>3, <2>7, <4>1, RecentAppend
    <3>3. Recent(Append(Aged(r), o)) = Recent(Append(Aged(q), o))
      <4>1. Recent(Append(Aged(r), o)) = IF o < BurstWindow THEN Append(Recent(Aged(r)), o)
                                         ELSE Recent(Aged(r))
        BY <2>6, RecentAppend
      <4>2. Recent(Append(Aged(q), o)) = IF o < BurstWindow THEN Append(Recent(Aged(q)), o)
                                         ELSE Recent(Aged(q))
        BY <2>6, RecentAppend
      <4>3. QED
        BY <2>3, <4>1, <4>2
    <3>4. QED
      BY <1>1, <2>1, <2>6, <3>1, <3>2, <3>3 DEF RecentAgrees
  <2>8. CASE ~(e < BurstWindow)
    <3>1. Recent(Append(q, e)) = r
      BY <2>4, <2>8
    <3>2. ~(o < BurstWindow)
      BY <1>0, <2>5, <2>8 DEF Older, Ages
    <3>3. Recent(Append(Aged(q), o)) = Recent(Aged(q))
      BY <2>6, <3>2, RecentAppend
    <3>4. QED
      BY <1>1, <2>1, <2>3, <2>6, <3>1, <3>3 DEF RecentAgrees
  <2>9. QED
    BY <2>7, <2>8
<1> HIDE DEF RecentAgrees
<1>4. Seq(Ages) \subseteq T
  BY <1>2, <1>3, SequencesUpTo
<1>5. QED
  BY <1>1, <1>4

-----------------------------------------------------------------------------
(***************************************************************************)
(* The attempts on record that count are all there have been.  The record  *)
(* is cut when the user tries again, the history as time passes.           *)
(***************************************************************************)
TallyInv ==
    /\ attempts \in [Users -> Seq(Ages)]
    /\ denied = [u \in Users |-> Recent(attempts[u])]

LEMMA TallyInitially == Init => TallyInv
<1>1. <<>> \in Seq(Ages)
  OBVIOUS
<1>2. QED
  BY <1>1, RecentOfNone DEF Init, TallyInv

\* An update that is denied is put on record, counted with those that are.
LEMMA DeniedIsCounted ==
    ASSUME TallyInv, NEW c \in Caller, ~Authorized(c)
    PROVE  LET window == Append(denied[c.user], 0)
               burst == Len(window) >= BurstLimit
           IN  /\ window \in Seq(Ages) /\ Recent(window) = window
               /\ Check(c).attempts = [attempts EXCEPT ![c.user] = window]
               /\ Check(c).verdict = IF burst THEN "burst" ELSE "denied"
               /\ burst => Check(c).count = Len(window)
<1>0. c.user \in Users /\ BurstWindow \in Nat /\ BurstWindow > 0
  BY BotAssumption DEF Caller
<1>1. /\ attempts[c.user] \in Seq(Ages)
      /\ denied[c.user] = Recent(attempts[c.user])
  BY <1>0 DEF TallyInv
<1>2. PICK r \in Seq(Ages) : r = denied[c.user] /\ Recent(r) = r
  BY <1>1, RecentIsStable DEF RecentAgrees
<1>3. 0 \in Ages /\ Ages \subseteq Nat /\ r \in Seq(Nat)
  BY <1>0, <1>2 DEF Ages
<1>4. Append(r, 0) \in Seq(Ages) /\ Recent(Append(r, 0)) = Append(r, 0)
  BY <1>0, <1>2, <1>3, RecentAppend
<1>5. QED
  BY <1>1, <1>2, <1>4 DEF Check

LEMMA TallyKept ==
    ASSUME TallyInv, BotInv, [Next]_vars
    PROVE  TallyInv'
<1>1. ASSUME Updates PROVE TallyInv'
  <2>1. PICK work, c, next :
           /\ work \in Works /\ c \in Caller /\ Fresh(next) /\ Takes(work, c, next)
    BY <1>1, Starting
  <2>2. c.user \in Users
    BY <2>1 DEF Caller
  <2>3. CASE Authorized(c)
    <3>1. attempts' = attempts /\ denied' = denied
      BY <2>1, <2>3 DEF Takes, Check
    <3>2. QED
      BY <3>1 DEF TallyInv
  <2>4. CASE ~Authorized(c)
    <3>1. PICK window \in Seq(Ages) : window = Append(denied[c.user], 0) /\ Recent(window) = window
      BY <2>1, <2>4, DeniedIsCounted
    <3>2. /\ attempts' = [attempts EXCEPT ![c.user] = window]
          /\ denied' = [denied EXCEPT ![c.user] = window]
      BY <2>1, <2>4, <3>1, DeniedIsCounted DEF Takes
    <3>3. QED
      BY <2>2, <3>1, <3>2 DEF TallyInv
  <2>5. QED
    BY <2>3, <2>4
<1>2. ASSUME Tick PROVE TallyInv'
  <2>1. \A u \in Users : AllOlder(attempts)[u] = Aged(attempts[u])
    BY DEF AllOlder, Aged
  <2>2. \A u \in Users : AllOlder(denied)[u] = Aged(denied[u])
    BY DEF AllOlder, Aged
  <2>3. attempts' = AllOlder(attempts) /\ denied' = [u \in Users |-> Recent(AllOlder(denied)[u])]
    BY <1>2 DEF Tick
  <2>4. \A u \in Users : Aged(attempts[u]) \in Seq(Ages)
    <3>1. ASSUME NEW s \in Seq(Ages) PROVE Aged(s) \in Seq(Ages)
      <4>1. 0 \in Ages
        BY BotAssumption DEF Ages
      <4>2. QED
        BY <4>1, AgedAppend
    <3>2. QED
      BY <3>1 DEF TallyInv
  <2>5. attempts' \in [Users -> Seq(Ages)]
    BY <2>1, <2>3, <2>4 DEF AllOlder
  <2>6. ASSUME NEW u \in Users PROVE Recent(AllOlder(denied)[u]) = Recent(attempts'[u])
    <3>1. attempts[u] \in Seq(Ages) /\ denied[u] = Recent(attempts[u])
      BY DEF TallyInv
    <3>2. Recent(Aged(denied[u])) = Recent(Aged(attempts[u]))
      BY <3>1, RecentIsStable DEF RecentAgrees
    <3>3. QED
      BY <2>1, <2>2, <2>3, <3>2
  <2>7. QED
    BY <2>3, <2>5, <2>6 DEF TallyInv
<1>3. ASSUME Handling PROVE attempts' = attempts /\ denied' = denied
  BY <1>3 DEF Handling, Delivered, MarkupRejected, SendFails, ServiceFails, ReadForReply,
     ReadPage, LookUpAccount, ServiceDone, ServiceRefuses, TooLargeByMetadata, GetFile,
     Downloaded, UploadFails, CookieRefused, CookieStored, MessageDeleted, DeleteFails,
     Answers, AnswerFails, Finish, KeepButSending, KeepButHand, KeepButService,
     KeepButUpload, guardVars
<1>4. ASSUME Cancelled \/ Elsewhere \/ UNCHANGED vars PROVE UNCHANGED <<attempts, denied>>
  BY <1>4 DEF Cancelled, Elsewhere, KeepButSending, vars, guardVars
<1>5. QED
  BY <1>1, <1>2, <1>3, <1>4 DEF Next, TallyInv

\* An attempt that is denied adds to what is on record of its user, and the
\* guard's verdict and count are about all of it that is within the window
\* (_record_unauthorized).
THEOREM BurstsAreCounted == Spec => BurstIsCounted
<1> DEFINE Counted ==
             \A u \in Users : denied'[u] # denied[u] =>
                 IF Len(denied'[u]) >= BurstLimit
                 THEN h'.verdict = "burst" /\ h'.count = Len(denied'[u])
                 ELSE h'.verdict = "denied"
           Step == At("idle") /\ ~At("idle")' => Counted
<1>1. ASSUME BotInv, TallyInv, [Next]_vars PROVE Step
  <2> SUFFICES ASSUME h.pc = "idle", h'.pc # "idle" PROVE Counted
    BY DEF At
  <2>1. ASSUME Updates PROVE Counted
    <3>1. PICK work, c, next :
             /\ work \in Works /\ c \in Caller /\ Fresh(next) /\ Takes(work, c, next)
      BY <2>1, Starting
    <3>2. h'.verdict = Check(c).verdict /\ h'.count = Check(c).count
      <4>1. PICK pc, text :
               h' = [next EXCEPT !.work = work, !.chat = c.chat, !.verdict = Check(c).verdict,
                                 !.count = Check(c).count, !.pc = pc, !.text = text]
        BY <3>1 DEF Takes
      <4>2. QED
        BY <3>1, <4>1 DEF Fresh, Hand
    <3>3. CASE Authorized(c)
      BY <3>1, <3>3 DEF Takes
    <3>4. CASE ~Authorized(c)
      <4>1. PICK window \in Seq(Ages) : window = Append(denied[c.user], 0)
        BY <1>1, <3>1, <3>4, DeniedIsCounted
      <4>2. /\ denied' = [denied EXCEPT ![c.user] = window]
            /\ denied \in [Users -> {denied[u] : u \in Users}]
        BY <1>1, <3>1, <3>4, <4>1 DEF Takes, TallyInv
      <4>3. IF Len(window) >= BurstLimit
            THEN h'.verdict = "burst" /\ h'.count = Len(window)
            ELSE h'.verdict = "denied"
        BY <1>1, <3>1, <3>2, <3>4, <4>1, DeniedIsCounted
      <4>4. \A u \in Users : denied'[u] # denied[u] => denied'[u] = window
        BY <4>2
      <4>5. QED
        BY <4>3, <4>4
    <3>5. QED
      BY <3>3, <3>4
  <2>2. ~Handling
    BY DEF Handling, Delivered, MarkupRejected, SendFails, ServiceFails, ReadForReply,
       ReadPage, LookUpAccount, ServiceDone, ServiceRefuses, TooLargeByMetadata, GetFile,
       Downloaded, UploadFails, CookieRefused, CookieStored, MessageDeleted, DeleteFails,
       Answers, AnswerFails, Finish, At
  <2>3. ~Cancelled /\ ~Elsewhere /\ ~UNCHANGED vars
    BY DEF Cancelled, Elsewhere, vars
  <2>4. ~Tick
    BY <1>1 DEF Tick, BotInv, Hand
  <2>5. QED
    BY <1>1, <2>1, <2>2, <2>3, <2>4 DEF Next
<1>2. QED
  BY BotInvInitially, BotInvKept, TallyInitially, TallyKept, <1>1, PTL DEF Spec, BurstIsCounted
-----------------------------------------------------------------------------
(***************************************************************************)
(* Type correctness: how much has been said and answered at each place,    *)
(* and that only an upload has a temporary file.                           *)
(***************************************************************************)
Uploads == {"get", "download", "store", "delete"}
Measured(x) ==
    /\ x.answers \in 0..2 /\ Len(x.sent) \in 0..2
    /\ x.pc = "answer" => x.sent = <<>> /\ x.answers <= 1
    /\ x.pc \in {"reply", "plain"} => Len(x.sent) <= 1 /\ (~x.final => x.sent = <<>>)
    /\ x.pc \in Uploads => x.work = "upload"
UploadsOnly == temp => h.work = "upload"

(* A step between two places of a handler says and answers nothing.        *)
LEMMA Quiet ==
    ASSUME Hand(h), Course(h), Busy(h), h.pc # "answer",
           \/ ServiceFails \/ ReadForReply \/ ReadPage \/ LookUpAccount
           \/ ServiceDone \/ ServiceRefuses
           \/ TooLargeByMetadata \/ GetFile \/ Downloaded \/ UploadFails
           \/ CookieRefused \/ CookieStored \/ MessageDeleted \/ DeleteFails
    PROVE  /\ Carries(h, h')
           /\ \/ h'.pc \in {"reply", "done", "service"}
              \/ h.pc \in Uploads /\ h'.pc \in Uploads
<1>1. CASE ServiceFails \/ ServiceRefuses \/ UploadFails \/ CookieRefused
  <2>1. PICK x \in {h, Faulty}, text \in {"internal", "refused"} : h' = Raised(x, text)
    BY <1>1 DEF ServiceFails, ServiceRefuses, UploadFails, CookieRefused, Apology
  <2>2. Hand(x) /\ Carries(h, x) /\ x.final = h.final
    BY DEF Hand, Faulty, Carries
  <2>3. /\ Carries(x, h')
        /\ h'.pc = IF x.final THEN "done"
                   ELSE IF x.work = "page" THEN IF x.answered THEN "done" ELSE "answer"
                   ELSE "reply"
    <3>1. /\ Carries(x, Raised(x, text))
          /\ Raised(x, text).pc =
                 IF x.final THEN "done"
                 ELSE IF x.work = "page" THEN IF x.answered THEN "done" ELSE "answer"
                 ELSE "reply"
      BY <2>2, RaisedCarries
    <3>2. QED
      BY <2>1, <3>1
  <2>4. h.work = "page" => h.answered
    BY DEF Course, CourseOfPress, Busy
  <2>5. QED
    BY <2>2, <2>3, <2>4 DEF Carries
<1>2. CASE ReadForReply
  BY <1>2 DEF ReadForReply, Says, Hand, Carries
<1>3. CASE ReadPage
  <2>1. PICK shown : h' = [h EXCEPT !.pc = "reply", !.text = "page", !.shown = shown]
    BY <1>3 DEF ReadPage
  <2>2. QED
    BY <2>1 DEF Hand, Carries
<1>4. CASE LookUpAccount
  <2>1. PICK already : h' = [h EXCEPT !.pc = "service", !.already = already]
    BY <1>4 DEF LookUpAccount
  <2>2. QED
    BY <2>1 DEF Hand, Carries
<1>5. CASE ServiceDone
  <2>1. PICK text : h' = [h EXCEPT !.pc = "reply", !.text = text, !.effect = TRUE]
    BY <1>5 DEF ServiceDone
  <2>2. QED
    BY <2>1 DEF Hand, Carries
<1>6. CASE TooLargeByMetadata \/ GetFile \/ Downloaded
  <2>1. h.pc \in Uploads /\ (Says("too large") \/ To("download") \/ To("store"))
    BY <1>6 DEF TooLargeByMetadata, GetFile, Downloaded, At, Uploads
  <2>2. CASE Says("too large")
    BY <2>2 DEF Says, Hand, Carries
  <2>3. CASE To("download") \/ To("store")
    BY <2>1, <2>3 DEF To, Hand, Carries, Uploads
  <2>4. QED
    BY <2>1, <2>2, <2>3
<1>7. CASE CookieStored
  BY <1>7 DEF CookieStored, At, Hand, Carries, Uploads
<1>8. CASE MessageDeleted
  BY <1>8 DEF MessageDeleted, Hand, Carries
<1>9. CASE DeleteFails
  <2>1. PICK gone \in BOOLEAN :
          h' = [h EXCEPT !.pc = "reply", !.text = "done", !.deleted = gone, !.faulty = TRUE]
    BY <1>9 DEF DeleteFails
  <2>2. QED
    BY <2>1 DEF Hand, Carries
<1>10. QED
  BY <1>1, <1>2, <1>3, <1>4, <1>5, <1>6, <1>7, <1>8, <1>9

LEMMA MeasuredQuiet ==
    ASSUME BotInv, Reports(h), Course(h), Measured(h),
           \/ ServiceFails \/ ReadForReply \/ ReadPage \/ LookUpAccount
           \/ ServiceDone \/ ServiceRefuses
           \/ TooLargeByMetadata \/ GetFile \/ Downloaded \/ UploadFails
           \/ CookieRefused \/ CookieStored \/ MessageDeleted \/ DeleteFails
    PROVE  Measured(h') /\ h'.work = h.work
<1>1. h.pc \in {"read", "look", "service"} \cup Uploads
  BY DEF ServiceFails, ReadForReply, ReadPage, LookUpAccount, ServiceDone, ServiceRefuses,
     TooLargeByMetadata, GetFile, Downloaded, UploadFails, CookieRefused, CookieStored,
     MessageDeleted, DeleteFails, At, Uploads
<1>2. Busy(h) /\ h.pc # "answer"
  BY <1>1 DEF Busy, Uploads
<1>3. /\ Carries(h, h')
      /\ \/ h'.pc \in {"reply", "done", "service"}
         \/ h.pc \in Uploads /\ h'.pc \in Uploads
  BY <1>2, Quiet DEF BotInv
<1>4. h.sent = <<>>
  BY <1>1 DEF Reports, Silent, Uploads
<1>5. h'.sent = <<>> /\ h'.answers = h.answers /\ h'.work = h.work /\ Len(<<>>) = 0
  BY <1>3, <1>4 DEF Carries
<1>6. QED
  BY <1>3, <1>5 DEF Measured, Uploads

LEMMA MeasuredSends ==
    ASSUME BotInv, Reports(h), Course(h), Measured(h), Delivered \/ MarkupRejected \/ SendFails
    PROVE  Measured(h') /\ h'.work = h.work
<1>0. /\ h.pc \in {"reply", "plain"} /\ h.sent \in Seq(Texts) /\ h.text \in Texts
      /\ Len(h.sent) \in 0..1 /\ (~h.final => h.sent = <<>>)
  <2>1. h.pc \in {"reply", "plain"}
    BY DEF Delivered, MarkupRejected, SendFails, At
  <2>2. h.sent \in Seq(Texts) /\ h.text \in Texts
    BY DEF Reports, Known
  <2>3. Len(h.sent) \in 0..2 /\ Len(h.sent) <= 1 /\ (~h.final => h.sent = <<>>)
    BY <2>1 DEF Measured
  <2>4. Len(h.sent) \in 0..1
    BY <2>3
  <2>5. QED
    BY <2>1, <2>2, <2>3, <2>4
<1>1. ASSUME NEW x, Hand(x), x.sent = h.sent, NEW y \in {x, Reaches(x)}
      PROVE  /\ Hand(y) /\ y.work = x.work /\ y.answers = x.answers /\ y.final = x.final
             /\ y.answered = x.answered
             /\ Len(y.sent) \in Len(h.sent)..Len(h.sent) + 1
  <2>1. /\ Hand(y) /\ y.work = x.work /\ y.answers = x.answers /\ y.final = x.final
        /\ y.answered = x.answered /\ y.sent \in {h.sent, Append(h.sent, h.text)}
    BY <1>1 DEF Hand, Reaches
  <2>2. Len(h.sent) \in Nat /\ Len(Append(h.sent, h.text)) = Len(h.sent) + 1
    BY <1>0
  <2>3. Len(y.sent) \in Len(h.sent)..Len(h.sent) + 1
    BY <2>1, <2>2
  <2>4. QED
    BY <2>1, <2>3
<1>2. CASE Delivered
  <2>1. PICK x \in {h, Reaches(h)} : h' = [x EXCEPT !.pc = "done"]
    BY <1>2 DEF Delivered
  <2>2. /\ Hand(x) /\ x.work = h.work /\ x.answers = h.answers
        /\ Len(x.sent) \in Len(h.sent)..Len(h.sent) + 1
    BY <1>1 DEF BotInv
  <2>3. h'.pc = "done" /\ h'.work = x.work /\ h'.answers = x.answers /\ h'.sent = x.sent
    BY <2>1, <2>2 DEF Hand
  <2>4. Len(h'.sent) \in 0..2
    <3>1. ASSUME NEW m \in 0..1, NEW n \in m..m + 1 PROVE n \in 0..2
      OBVIOUS
    <3>2. QED
      BY <1>0, <2>2, <2>3, <3>1
  <2>5. QED
    BY <2>2, <2>3, <2>4 DEF Measured, Uploads
<1>3. CASE MarkupRejected
  <2>1. /\ h'.pc = "plain" /\ h'.work = h.work /\ h'.answers = h.answers
        /\ h'.sent = h.sent /\ h'.final = h.final
    BY <1>3 DEF MarkupRejected, To, BotInv, Hand
  <2>2. QED
    BY <1>0, <2>1 DEF Measured, Uploads
<1>4. CASE SendFails
  <2>1. PICK x \in {Faulty} : \E y \in {x, Reaches(x)} : h' = Apology(y)
    BY <1>4 DEF SendFails
  <2>2. PICK y \in {x, Reaches(x)} : h' = Raised(y, "internal")
    BY <2>1 DEF Apology
  <2>3. /\ Hand(x) /\ x.sent = h.sent /\ x.work = h.work /\ x.answers = h.answers
        /\ x.final = h.final /\ x.answered = h.answered
    BY <2>1 DEF BotInv, Hand, Faulty
  <2>4. /\ Hand(y) /\ y.work = h.work /\ y.answers = h.answers /\ y.final = h.final
        /\ y.answered = h.answered
        /\ Len(y.sent) \in Len(h.sent)..Len(h.sent) + 1
    BY <1>1, <2>3
  <2>5. /\ Carries(y, h') /\ h'.final = TRUE
        /\ h'.pc = IF y.final THEN "done"
                   ELSE IF y.work = "page" THEN IF y.answered THEN "done" ELSE "answer"
                   ELSE "reply"
    BY <2>2, <2>4, RaisedCarries
  <2>6. h.work = "page" => h.answered
    BY <1>0 DEF Course, CourseOfPress
  <2>7. /\ h'.work = h.work /\ h'.answers = h.answers /\ h'.sent = y.sent
        /\ h'.pc \in {"done", "reply"} /\ (h'.pc = "reply" => ~h.final)
    BY <2>4, <2>5, <2>6 DEF Carries
  <2>8. Len(h'.sent) \in 0..2 /\ (~h.final => Len(h'.sent) <= 1)
    <3>1. Len(h'.sent) \in Len(h.sent)..Len(h.sent) + 1
      BY <2>4, <2>7
    <3>2. ~h.final => Len(h.sent) = 0
      BY <1>0
    <3>3. ASSUME NEW m \in 0..1, NEW n \in m..m + 1 PROVE n \in 0..2 /\ (m = 0 => n <= 1)
      OBVIOUS
    <3>4. QED
      BY <1>0, <3>1, <3>2, <3>3
  <2>9. QED
    BY <2>5, <2>7, <2>8 DEF Measured, Uploads
<1>5. QED
  BY <1>2, <1>3, <1>4

LEMMA MeasuredAnswers ==
    ASSUME BotInv, Course(h), Measured(h), Answers \/ AnswerFails
    PROVE  Measured(h') /\ h'.work = h.work
<1>0. /\ h.pc = "answer" /\ h.work = "page" /\ h.sent = <<>> /\ Len(<<>>) = 0
      /\ h.answers \in 0..1 /\ (~h.final => h.answers = 0)
  BY DEF Answers, AnswerFails, At, Course, CourseOfCommand, CourseOfPress, Measured
<1>1. CASE Answers
  <2> DEFINE pc == CASE h.final -> "done"
                     [] ~h.final /\ h.verdict # "allowed" -> "reply"
                     [] ~h.final /\ h.verdict = "allowed" /\ ~h.fresh -> "done"
                     [] OTHER -> "read"
  <2>1. pc \in {"done", "reply", "read"}
    BY DEF BotInv, FileHeld
  <2>2. h' = [h EXCEPT !.answers = @ + 1, !.answered = TRUE, !.pc = pc]
    BY <1>1 DEF Answers
  <2> HIDE DEF pc
  <2>3. h'.pc = pc /\ h'.work = h.work /\ h'.answers = h.answers + 1 /\ h'.sent = h.sent
    BY <2>2 DEF BotInv, Hand
  <2>4. QED
    BY <1>0, <2>1, <2>3 DEF Measured, Uploads
<1>2. CASE AnswerFails
  <2>0. PICK n \in {0, 1} : h' = Raised([Faulty EXCEPT !.answers = @ + n], "internal")
    BY <1>2 DEF AnswerFails, Apology
  <2>1. PICK x \in {[Faulty EXCEPT !.answers = @ + n]} : h' = Raised(x, "internal")
    BY <2>0
  <2>2. PICK y \in {Faulty} : x = [y EXCEPT !.answers = y.answers + n]
    BY <2>1
  <2>3. /\ Hand(y) /\ y.work = h.work /\ y.answers = h.answers /\ y.sent = h.sent
        /\ y.final = h.final
    BY <2>2 DEF BotInv, Hand, Faulty
  <2>4. /\ Hand(x) /\ x.work = h.work /\ x.answers = h.answers + n /\ x.sent = h.sent
        /\ x.final = h.final
    BY <2>2, <2>3 DEF Hand
  <2>5. /\ Carries(x, h')
        /\ h'.pc = IF x.final THEN "done"
                   ELSE IF x.work = "page" THEN IF x.answered THEN "done" ELSE "answer"
                   ELSE "reply"
    BY <2>1, <2>4, RaisedCarries
  <2>6. /\ h'.work = h.work /\ h'.answers = h.answers + n /\ h'.sent = h.sent
        /\ h'.pc \in {"done", "answer"} /\ (h'.pc = "answer" => ~h.final)
    BY <1>0, <2>4, <2>5 DEF Carries
  <2>7. QED
    BY <1>0, <2>6 DEF Measured, Uploads
<1>3. QED
  BY <1>1, <1>2

LEMMA MeasuredElsewhere ==
    ASSUME BotInv, Measured(h), Cancelled \/ Tick \/ Elsewhere \/ UNCHANGED vars
    PROVE  Measured(h') /\ h'.work = h.work
<1>1. CASE Cancelled
  <2>1. h'.pc = "done" /\ h'.work = h.work /\ h'.answers = h.answers /\ h'.sent = h.sent
    BY <1>1 DEF Cancelled, BotInv, Hand
  <2>2. QED
    BY <2>1 DEF Measured, Uploads
<1>2. CASE Tick
  <2>1. /\ h'.pc = h.pc /\ h'.work = h.work /\ h'.answers = h.answers
        /\ h'.sent = h.sent /\ h'.final = h.final
    BY <1>2 DEF Tick, BotInv, Hand
  <2>2. QED
    BY <2>1 DEF Measured
<1>3. CASE Elsewhere \/ UNCHANGED vars
  <2>1. h' = h
    BY <1>3 DEF Elsewhere, vars
  <2>2. QED
    BY <2>1
<1>4. QED
  BY <1>1, <1>2, <1>3

LEMMA MeasuredEnds ==
    ASSUME BotInv, Finish \/ Updates
    PROVE  Measured(h') /\ ~temp'
<1>0. Len(<<>>) = 0
  OBVIOUS
<1>1. CASE Finish
  <2>1. h'.pc = "idle" /\ h'.answers = 0 /\ h'.sent = <<>>
    BY <1>1 DEF Finish, Idle
  <2>2. ~temp'
    BY <1>1 DEF Finish, KeepButHand, At, BotInv, FileHeld
  <2>3. QED
    BY <1>0, <2>1, <2>2 DEF Measured, Uploads
<1>2. CASE Updates
  <2>1. PICK work, c, next :
         /\ work \in Works /\ c \in Caller /\ Fresh(next) /\ Takes(work, c, next)
    BY <1>2, Starting
  <2>2. /\ Fresh(h') /\ h'.work = work /\ (h'.pc = "get" => work = "upload")
        /\ h'.pc \in {"reply", "read", "look", "service", "get", "answer"} /\ ~temp'
    BY <2>1, Arrival
  <2>3. QED
    BY <1>0, <2>2 DEF Fresh, Measured, Uploads
<1>3. QED
  BY <1>1, <1>2

(* A file is created by an upload.                                         *)
LEMMA CreatedByUpload ==
    ASSUME BotInv, Measured(h), [Next]_vars, ~Updates, temp'
    PROVE  temp \/ h.work = "upload"
<1>1. CASE GetFile
  BY <1>1 DEF GetFile, At, Measured, Uploads
<1>2. CASE Handling /\ ~GetFile
  <2>1. temp' => temp
    BY <1>2 DEF Handling, Delivered, MarkupRejected, SendFails, FinallyOfUpload, ServiceFails,
       ReadForReply, ReadPage, LookUpAccount, ServiceDone, ServiceRefuses, TooLargeByMetadata,
       Downloaded, UploadFails, CookieRefused, CookieStored, MessageDeleted, DeleteFails,
       Answers, AnswerFails, Finish, KeepButHand, KeepButService
  <2>2. QED
    BY <2>1
<1>3. CASE Cancelled \/ Elsewhere \/ Tick \/ UNCHANGED vars
  BY <1>3 DEF Cancelled, Elsewhere, Tick, vars
<1>4. QED
  BY <1>1, <1>2, <1>3 DEF Next

LEMMA MeasuredInitially == Init => Measured(h) /\ UploadsOnly
<1>1. Len(<<>>) = 0
  OBVIOUS
<1>2. QED
  BY <1>1 DEF Init, Idle, Measured, UploadsOnly, Uploads

LEMMA MeasuredKept ==
    BotInv /\ Reports(h) /\ Course(h) /\ Measured(h) /\ UploadsOnly /\ [Next]_vars
        => Measured(h)' /\ UploadsOnly'
<1> SUFFICES ASSUME BotInv, Reports(h), Course(h), Measured(h), UploadsOnly, [Next]_vars
             PROVE  Measured(h') /\ UploadsOnly'
  OBVIOUS
<1>1. CASE Finish \/ Updates
  BY <1>1, MeasuredEnds DEF UploadsOnly
<1>2. CASE ~(Finish \/ Updates)
  <2>1. Measured(h') /\ h'.work = h.work
    BY <1>2, MeasuredQuiet, MeasuredSends, MeasuredAnswers, MeasuredElsewhere
       DEF Next, Handling
  <2>2. temp' => temp \/ h.work = "upload"
    BY <1>2, CreatedByUpload
  <2>3. QED
    BY <2>1, <2>2 DEF UploadsOnly
<1>3. QED
  BY <1>1, <1>2

\* Every variable has its type: a page is one of the list, with no more
\* accounts than fit on it; no handler says or answers more than twice; and
\* only the handler of an uploaded file has a temporary one.
THEOREM BotTypeCorrect == Spec => []TypeOK
<1>1. /\ BotInv /\ WalkInv /\ AccountsShape /\ PagesNumbered /\ TallyInv
      /\ Measured(h) /\ UploadsOnly
      => TypeOK
  <2> SUFFICES ASSUME BotInv, WalkInv, AccountsShape, PagesNumbered, TallyInv,
                      Measured(h), UploadsOnly
               PROVE  TypeOK
    OBVIOUS
  <2>1. DOMAIN accounts \subseteq Accounts /\ \A a \in DOMAIN accounts : accounts[a] \in BOOLEAN
    BY DEF WalkInv, AccountsOK, AccountsShape
  <2>2. last \in 0..Throttle /\ temp \in BOOLEAN /\ h.pc \in Pcs
    BY DEF BotInv, AgesAgree, FileHeld
  <2>3. ASSUME NEW u \in Users PROVE ToSet(attempts[u]) \subseteq 0..BurstWindow
    <3>1. attempts[u] \in Seq(Ages)
      BY DEF TallyInv
    <3>2. \A k \in DOMAIN attempts[u] : attempts[u][k] \in Ages
      BY <3>1
    <3>3. QED
      BY <3>2 DEF ToSet, Ages
  <2>4. /\ screen.page <= screen.total /\ ToSet(screen.rows) \subseteq Accounts
        /\ Len(screen.rows) <= PageSize
        /\ (screen.total > 0) <=> (screen.rows # <<>>)
    BY DEF PagesNumbered, SheetTyped
  <2>5. Len(h.sent) <= 2 /\ h.answers <= 2
    <3>1. Len(h.sent) \in 0..2 /\ h.answers \in 0..2
      BY DEF Measured
    <3>2. \A n \in 0..2 : n <= 2
      OBVIOUS
    <3>3. QED
      BY <3>1, <3>2
  <2>6. temp => h.work = "upload" /\ h.pc \in {"download", "store", "reply", "plain"}
    BY DEF UploadsOnly, BotInv, FileHeld
  <2>7. QED
    BY <2>1, <2>2, <2>3, <2>4, <2>5, <2>6 DEF TypeOK
<1>2. QED
  BY BotInvInitially, BotInvKept, ReportsInitially, ReportsKept, CourseInitially, CourseKept,
     WalkInvInitially, WalkInvKept, PressInitially, PressKept, TallyInitially, TallyKept,
     MeasuredInitially, MeasuredKept, <1>1, PTL DEF Spec
=============================================================================
