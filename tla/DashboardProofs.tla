-------------------------- MODULE DashboardProofs --------------------------
(***************************************************************************)
(* Proof that the pages of the dashboard are sound, for any number of      *)
(* requests in flight, webhooks and keys.  PagesSound is proved part by    *)
(* part; each part is strengthened to say what the requests in flight will *)
(* do to the page when they are answered.                                  *)
(***************************************************************************)
EXTENDS Dashboard, TLAPS

Kinds == {"load", "create", "remove", "test", "rotate", "deliveries", "generate",
          "enable", "session", "logout", Nil}
PageNames == {"overview", "approvals", "keys", "webhooks", "settings", Nil}
Tabs   == Filters \cup {"all"}
Things == Items \cup Tabs \cup {"off", "on", "setup", Nil}
Lists  == [of : Things, items : SUBSET Items]
Told   == [of : Things, number : Nat]
Views  ==
    [page : PageNames, filter : Tabs, list : Lists, loading : BOOLEAN, error : BOOLEAN,
     busy : BOOLEAN, working : Items \cup {Nil}, dialog : Items \cup {"setup", Nil},
     secret : Told, heading : Items \cup {Nil}, deliveries : Things, fetching : BOOLEAN,
     raced : BOOLEAN]
Asked ==
    [kind : Kinds, of : Things, number : Nat, items : SUBSET Items,
     answer : {"none", "ok", "failed"}, by : BOOLEAN, signal : BOOLEAN, closes : BOOLEAN,
     then : {"busy", "working", Nil}]

(* What is asked about an item; only layout requests fail by themselves;   *)
(* only loads have a signal or a continuation.                             *)
Fits(r) ==
    /\ r.kind \in {"create", "remove", "test", "rotate", "deliveries"} => r.of \in Items
    /\ r.kind = "load" => r.of \notin Items
    /\ r.kind # "load" => ~r.signal /\ r.then = Nil

SentOK == sent \in [Slots -> Asked] /\ \A s \in Slots : Fits(sent[s])
ViewOK ==
    /\ view \in Views
    /\ view.dialog # Nil => view.page \in {"keys", "webhooks", "settings"}
    /\ view.heading # Nil => view.page = "webhooks"
ServerOK ==
    /\ alive \subseteq Items /\ number \in [Items -> Nat]
    /\ factor \in [made : Nat, pending : Nat, enabled : Nat]
Types == SentOK /\ ViewOK /\ ServerOK /\ shown \subseteq Nat /\ tangled \in BOOLEAN

USE DashboardAssumption DEF Nil, NoList, NoSecret

LEMMA MountedType == ASSUME NEW p \in PageNames PROVE Mounted(p) \in Views
BY DEF Mounted, Views, PageNames, Tabs, Lists, Told, Things, Items

LEMMA RequestType ==
    ASSUME NEW k \in Kinds, NEW o \in Things
    PROVE  Request(k, o) \in Asked
BY DEF Request, Asked

LEMMA NoRequestFits == NoRequest \in Asked /\ Fits(NoRequest)
BY DEF NoRequest, Request, Asked, Fits, Kinds, Things

LEMMA LoadFits ==
    ASSUME NEW v \in Views, NEW b \in BOOLEAN, NEW w \in {"busy", "working", Nil}
    PROVE  /\ LoadOf(v, b) \in Asked /\ Fits(LoadOf(v, b))
           /\ [LoadOf(v, b) EXCEPT !.then = w] \in Asked
           /\ Fits([LoadOf(v, b) EXCEPT !.then = w])
<1>1. DEFINE o == IF v.page = "approvals" THEN v.filter ELSE "all"
<1>2. o \in Things /\ o \notin Items
  BY DEF Things, Tabs, Items, Views
<1>3. Request("load", o) \in Asked
  BY <1>2, RequestType DEF Kinds
<1>4. LoadOf(v, b) = [Request("load", o) EXCEPT !.signal = b]
  BY DEF LoadOf
<1> HIDE DEF o
<1>5. QED
  BY <1>2, <1>3, <1>4 DEF Request, Asked, Fits

LEMMA LoadingType ==
    ASSUME NEW v \in Views
    PROVE  /\ Loading(v) \in Views
           /\ Loading(v).page = v.page /\ Loading(v).dialog = v.dialog
           /\ Loading(v).heading = v.heading
BY DEF Loading, Views

(* The page when a filter has been chosen, before its load is sent.        *)
Choosing(f) == [view EXCEPT !.filter = f, !.raced = Of({"load"}) # Called]

LEMMA ResetType ==
    ASSUME NEW v \in Views, NEW w \in {"busy", "working", Nil}
    PROVE  /\ Reset(v, w) \in Views
           /\ Reset(v, w).page = v.page /\ Reset(v, w).dialog = v.dialog
           /\ Reset(v, w).heading = v.heading
BY DEF Reset, Views

LEMMA OrphanFits ==
    ASSUME NEW r \in Asked, Fits(r)
    PROVE  Orphan(r) \in Asked /\ Fits(Orphan(r))
BY NoRequestFits DEF Orphan, Asked, Fits, Changes

LEMMA InitTypes == DashInit => Types
<1> SUFFICES ASSUME DashInit PROVE Types
  OBVIOUS
<1>1. view \in Views /\ view.dialog = Nil /\ view.heading = Nil
  <2>1. Mounted(Nil) \in Views
    BY MountedType DEF PageNames
  <2>2. Mounted(Nil).dialog = Nil /\ Mounted(Nil).heading = Nil
    BY DEF Mounted
  <2>3. QED
    BY <2>1, <2>2 DEF DashInit
<1>2. sent \in [Slots -> Asked] /\ \A s \in Slots : Fits(sent[s])
  BY NoRequestFits DEF DashInit
<1>3. number \in [Items -> Nat] /\ alive \subseteq Items
  BY DEF DashInit
<1>4. factor \in [made : Nat, pending : Nat, enabled : Nat] /\ shown \subseteq Nat
      /\ tangled \in BOOLEAN
  BY DEF DashInit
<1>5. QED
  BY <1>1, <1>2, <1>3, <1>4 DEF Types, SentOK, ViewOK, ServerOK


-----------------------------------------------------------------------------
(* Types are preserved.                                                    *)

LEMMA SlotSent ==
    ASSUME SentOK, NEW s \in Slots, NEW r \in Asked, Fits(r), sent' = [sent EXCEPT ![s] = r]
    PROVE  SentOK'
BY DEF SentOK

LEMMA SendsSent ==
    ASSUME SentOK, NEW s \in Slots, NEW r, r \in Asked /\ Fits(r), SendAs(s, r)
    PROVE  SentOK'
BY SlotSent DEF SendAs

LEMMA AskedType ==
    ASSUME NEW k \in Kinds \ {"load"}, NEW o \in Things,
           k \in {"create", "remove", "test", "rotate", "deliveries"} => o \in Items
    PROVE  Request(k, o) \in Asked /\ Fits(Request(k, o))
BY RequestType DEF Request, Fits, Things, Items

LEMMA UserTypes ==
    ASSUME Types, NEW s \in Slots, UserActs(s)
    PROVE  Types'
<1> USE DEF Kinds, Things
<1>1. SentOK /\ ViewOK /\ ServerOK /\ shown \subseteq Nat /\ tangled \in BOOLEAN
  BY DEF Types
<1>2. ASSUME Quiet PROVE ServerOK' /\ shown' \subseteq Nat
  BY <1>1, <1>2 DEF Quiet, server, ServerOK
<1>3. CASE Enter(s)
  <2>1. SentOK'
    <3>1. Request("session", Nil) \in Asked /\ Fits(Request("session", Nil))
      BY AskedType
    <3>2. QED
      BY <1>1, <1>3, <3>1, SendsSent DEF Enter
  <2>2. QED
    BY <1>1, <1>3, <2>1 DEF Types, Enter, server, ViewOK, ServerOK
<1>4. CASE SignOut(s)
  <2>1. SentOK'
    <3>1. Request("logout", Nil) \in Asked /\ Fits(Request("logout", Nil))
      BY AskedType DEF Items
    <3>2. QED
      BY <1>1, <1>4, <3>1, SendsSent DEF SignOut
  <2>2. QED
    BY <1>1, <1>4, <2>1 DEF Types, SignOut, server, ViewOK, ServerOK
<1>5. CASE Retry(s)
  <2>1. SentOK'
    <3>1. LoadOf(view, FALSE) \in Asked /\ Fits(LoadOf(view, FALSE))
      BY <1>1, LoadFits DEF ViewOK
    <3>2. QED
      BY <1>1, <1>5, <3>1, SendsSent DEF Retry
  <2>2. ViewOK'
    BY <1>1, <1>5, LoadingType DEF Retry, ViewOK
  <2>3. QED
    BY <1>1, <1>2, <1>5, <2>1, <2>2 DEF Types, Retry
<1>6. CASE Remove(s)
  <2>1. view.dialog \in Items /\ view.dialog \in Things
    BY <1>6 DEF Remove
  <2> DEFINE q == Request("remove", view.dialog)
             r == [q EXCEPT !.closes = (view.heading = view.dialog)]
  <2>2. q \in Asked /\ Fits(q) /\ q.of = view.dialog
    BY <2>1, AskedType DEF Request
  <2>3. Work(s, r, view)
    BY <1>6 DEF Remove
  <2> HIDE DEF q
  <2>4. PICK b \in BOOLEAN : r = [q EXCEPT !.closes = b]
    OBVIOUS
  <2>7. r \in Asked /\ Fits(r) /\ r.of = view.dialog
    BY <2>2, <2>4 DEF Asked, Fits
  <2> HIDE DEF r
  <2>8. SentOK'
    BY <1>1, <2>3, <2>7, SendsSent DEF Work
  <2>5. ViewOK' /\ tangled' \in BOOLEAN /\ Quiet
    BY <1>1, <2>1, <2>3, <2>7 DEF Work, ViewOK, Views, Tangles
  <2>6. QED
    BY <1>1, <1>2, <2>5, <2>8 DEF Types
<1>7. CASE Start2faSetup(s)
  <2>1. SentOK'
    <3>1. Request("generate", "setup") \in Asked /\ Fits(Request("generate", "setup"))
      BY AskedType DEF Items
    <3>2. QED
      BY <1>1, <1>7, <3>1, SendsSent DEF Start2faSetup
  <2>2. ViewOK'
    BY <1>1, <1>7 DEF Start2faSetup, ViewOK, Views, Told, At
  <2>3. QED
    BY <1>1, <1>2, <1>7, <2>1, <2>2 DEF Types, Start2faSetup
<1>8. CASE Confirm2fa(s)
  <2>1. PICK n \in shown : SendAs(s, [Request("enable", "setup") EXCEPT !.number = n])
    BY <1>8 DEF Confirm2fa
  <2>2. Request("enable", "setup") \in Asked /\ Fits(Request("enable", "setup"))
    BY AskedType
  <2>3. SentOK'
    BY <1>1, <2>1, <2>2, SlotSent DEF SendAs, Asked, Fits
  <2>4. ViewOK'
    BY <1>1, <1>8 DEF Confirm2fa, ViewOK, Views
  <2>5. QED
    BY <1>1, <1>2, <1>8, <2>3, <2>4 DEF Types, Confirm2fa
<1>9. ASSUME NEW p \in {"overview", "approvals", "keys", "webhooks", "settings"}, Mount(s, p)
      PROVE  Types'
  <2>1. Mounted(p) \in Views /\ Loading(Mounted(p)) \in Views
    BY MountedType, LoadingType DEF PageNames
  <2>2. ViewOK'
    BY <1>9, <2>1 DEF Mount, ViewOK, Mounted, Loading
  <2>3. \A t \in Slots : Unmounted(t) \in Asked /\ Fits(Unmounted(t))
    BY <1>1, OrphanFits DEF Unmounted, SentOK
  <2>4. LoadOf(Mounted(p), TRUE) \in Asked /\ Fits(LoadOf(Mounted(p), TRUE))
    BY <2>1, LoadFits
  <2>5. SentOK'
    BY <1>9, <2>3, <2>4 DEF Mount, SentOK
  <2>6. QED
    BY <1>1, <1>2, <1>9, <2>2, <2>5 DEF Types, Mount
<1>10. ASSUME NEW f \in Filters \cup {"all"}, ChooseFilter(s, f)
       PROVE  Types'
  <2> DEFINE v == [view EXCEPT !.filter = f, !.raced = Of({"load"}) # Called]
  <2>1. v \in Views /\ v.page = view.page /\ v.dialog = view.dialog /\ v.heading = view.heading
    <3>1. PICK b \in BOOLEAN : v = [view EXCEPT !.filter = f, !.raced = b]
      OBVIOUS
    <3> HIDE DEF v
    <3>2. QED
      BY <1>1, <3>1 DEF ViewOK, Views, Tabs
  <2>2. PICK failed \in BOOLEAN :
           view' = [Loading(v) EXCEPT !.loading = (CalledOff = {}), !.error = failed]
    BY <1>10 DEF ChooseFilter
  <2>3. sent' = [t \in Slots |-> IF t = s THEN LoadOf(v, TRUE)
                                 ELSE IF t \in CalledOff THEN NoRequest ELSE sent[t]]
    BY <1>10 DEF ChooseFilter
  <2>4. LoadOf(v, TRUE) \in Asked /\ Fits(LoadOf(v, TRUE))
    BY <2>1, LoadFits
  <2>5. SentOK'
    BY <1>1, <2>3, <2>4, NoRequestFits DEF SentOK
  <2> HIDE DEF v
  <2>6. ViewOK'
    <3>1. PICK b \in BOOLEAN :
             view' = [Loading(v) EXCEPT !.loading = b, !.error = failed]
      BY <2>2
    <3>2. /\ Loading(v) \in Views /\ Loading(v).page = view.page
          /\ Loading(v).dialog = view.dialog /\ Loading(v).heading = view.heading
      BY <2>1, LoadingType
    <3>3. /\ view' \in Views /\ view'.page = view.page
          /\ view'.dialog = view.dialog /\ view'.heading = view.heading
      BY <3>1, <3>2 DEF Views
    <3>4. QED
      BY <1>1, <3>3 DEF ViewOK
  <2>7. QED
    BY <1>1, <1>2, <1>10, <2>5, <2>6 DEF Types, ChooseFilter
<1>11. ASSUME NEW i \in Items, Create(s, i)
       PROVE  Types'
  <2>1. SentOK'
    <3>1. Request("create", i) \in Asked /\ Fits(Request("create", i))
      BY AskedType DEF Items
    <3>2. QED
      BY <1>1, <1>11, <3>1, SendsSent DEF Create
  <2>2. ViewOK'
    BY <1>1, <1>11 DEF Create, ViewOK, Views, Told
  <2>3. QED
    BY <1>1, <1>2, <1>11, <2>1, <2>2 DEF Types, Create
<1>12. ASSUME NEW h \in Hooks, NEW k \in {"test", "rotate"}, NEW v, ViewOK,
              v \in {view, [view EXCEPT !.secret = NoSecret]}, Work(s, Request(k, h), v)
       PROVE  Types'
  <2>1. Request(k, h) \in Asked /\ Fits(Request(k, h)) /\ Request(k, h).of = h
    BY AskedType DEF Items, Request
  <2>2. SentOK'
    BY <1>1, <1>12, <2>1, SlotSent DEF Work, SendAs
  <2>3. v \in Views /\ v.page = view.page /\ v.dialog = view.dialog /\ v.heading = view.heading
    BY <1>1, <1>12 DEF ViewOK, Views, Told
  <2>4. ViewOK' /\ tangled' \in BOOLEAN /\ Quiet
    BY <1>1, <1>12, <2>1, <2>3 DEF Work, ViewOK, Views, Tangles, Items
  <2>5. QED
    BY <1>1, <1>2, <2>2, <2>4 DEF Types
<1>13. ASSUME NEW h \in Hooks, TestWebhook(s, h) \/ RotateSecret(s, h)
       PROVE  Types'
  BY <1>1, <1>12, <1>13 DEF TestWebhook, RotateSecret
<1>14. ASSUME NEW h \in Hooks, LoadDeliveries(s, h)
       PROVE  Types'
  <2>1. SentOK'
    <3>1. Request("deliveries", h) \in Asked /\ Fits(Request("deliveries", h))
      BY AskedType DEF Items
    <3>2. QED
      BY <1>1, <1>14, <3>1, SendsSent DEF LoadDeliveries
  <2>2. ViewOK'
    <3>1. PICK b \in BOOLEAN :
              view' = [view EXCEPT !.heading = h, !.deliveries = Nil, !.fetching = TRUE,
                                   !.error = FALSE, !.raced = b]
      BY <1>14 DEF LoadDeliveries
    <3>2. QED
      BY <1>1, <1>14, <3>1 DEF LoadDeliveries, ViewOK, Views, At, Items
  <2>3. QED
    BY <1>1, <1>2, <1>14, <2>1, <2>2 DEF Types, LoadDeliveries
<1>15. QED
  BY <1>3, <1>4, <1>5, <1>6, <1>7, <1>8, <1>9, <1>10, <1>11, <1>13, <1>14
  DEF UserActs, CreateKey, CreateWebhook, Items


LEMMA AnswerSent ==
    ASSUME SentOK, NEW s \in Slots, NEW r, r \in Asked /\ Fits(r), Answers(s, r)
    PROVE  SentOK'
<1>1. [r EXCEPT !.answer = "ok"] \in Asked /\ Fits([r EXCEPT !.answer = "ok"])
  BY DEF Asked, Fits
<1>2. (IF r.by THEN [r EXCEPT !.answer = "ok"] ELSE NoRequest) \in Asked
      /\ Fits(IF r.by THEN [r EXCEPT !.answer = "ok"] ELSE NoRequest)
  BY <1>1, NoRequestFits
<1>3. QED
  BY <1>2, SlotSent DEF Answers

(* A list the server sends holds only webhooks or keys there are.          *)
LEMMA RowsAreAlive == \A p : Rows(p) \subseteq alive
BY DEF Rows

LEMMA ServeTypes ==
    ASSUME Types, NEW s \in Slots, Serve(s)
    PROVE  Types'
<1> USE DEF Types
<1>1. sent[s] \in Asked /\ Fits(sent[s])
  BY DEF SentOK
<1>2. \A n \in Nat : [sent[s] EXCEPT !.number = n] \in Asked /\ Fits([sent[s] EXCEPT !.number = n])
  BY <1>1 DEF Asked, Fits
<1>3. ASSUME NEW r, Answers(s, r) PROVE ViewOK' /\ shown' \subseteq Nat /\ tangled' \in BOOLEAN
  BY <1>3 DEF Answers, ViewOK
<1>4. CASE ServeSession(s)
  BY <1>1, <1>3, <1>4, AnswerSent DEF ServeSession, server, ServerOK
<1>5. CASE ServeLogout(s)
  BY <1>1, <1>3, <1>5, AnswerSent DEF ServeLogout, ServerOK
<1>6. CASE ServeLoad(s)
  <2> DEFINE on == [sent[s] EXCEPT !.of = IF factor.enabled = 0 THEN "off" ELSE "on"]
             in == [sent[s] EXCEPT !.items = Rows(view.page)]
  <2>1. sent[s].kind = "load"
    BY <1>6 DEF ServeLoad
  <2>2. on \in Asked /\ Fits(on)
    BY <1>1, <2>1 DEF Asked, Fits, Things, Items
  <2>3. in \in Asked /\ Fits(in)
    <3>1. Rows(view.page) \subseteq Items
      BY RowsAreAlive DEF ServerOK
    <3>2. QED
      BY <1>1, <2>1, <3>1 DEF Asked, Fits
  <2>4. Answers(s, on) \/ Answers(s, in)
    BY <1>6 DEF ServeLoad
  <2> HIDE DEF on, in
  <2>5. QED
    BY <1>3, <1>6, <2>2, <2>3, <2>4, AnswerSent DEF ServeLoad, server, ServerOK
<1>7. CASE ServeRead(s)
  BY <1>1, <1>3, <1>7, AnswerSent DEF ServeRead, server, ServerOK
<1>8. CASE ServeCreate(s)
  <2>1. SentOK'
    BY <1>2, <1>8, AnswerSent DEF ServeCreate
  <2>2. ServerOK'
    BY <1>1, <1>8 DEF ServeCreate, ServerOK, Fits
  <2>3. QED
    BY <1>3, <1>8, <2>1, <2>2 DEF ServeCreate
<1>9. CASE ServeRemove(s)
  BY <1>1, <1>3, <1>9, AnswerSent DEF ServeRemove, ServerOK
<1>10. CASE ServeRotate(s)
  <2>1. number[sent[s].of] + 1 \in Nat
    BY <1>1, <1>10 DEF ServeRotate, ServerOK, Fits
  <2>2. SentOK'
    BY <1>2, <1>10, <2>1, AnswerSent DEF ServeRotate
  <2>3. ServerOK'
    BY <1>10, <2>1 DEF ServeRotate, ServerOK
  <2>4. QED
    BY <1>3, <1>10, <2>2, <2>3 DEF ServeRotate
<1>11. CASE ServeGenerate(s)
  <2>1. factor.made + 1 \in Nat
    BY DEF ServerOK
  <2>2. SentOK'
    BY <1>2, <1>11, <2>1, AnswerSent DEF ServeGenerate
  <2>3. ServerOK'
    BY <1>11, <2>1 DEF ServeGenerate, ServerOK
  <2>4. QED
    BY <1>3, <1>11, <2>2, <2>3 DEF ServeGenerate
<1>12. CASE ServeEnable(s)
  <2>1. ServerOK'
    BY <1>12 DEF ServeEnable, ServerOK
  <2>2. QED
    BY <1>1, <1>3, <1>12, <2>1, AnswerSent DEF ServeEnable
<1>13. QED
  BY <1>4, <1>5, <1>6, <1>7, <1>8, <1>9, <1>10, <1>11, <1>12 DEF Serve

LEMMA HandledTypes ==
    ASSUME Types, NEW s \in Slots, NEW v, Handled(s, v),
           v \in Views /\ v.page = view.page /\ v.dialog = view.dialog /\ v.heading = view.heading
    PROVE  Types'
<1>1. SentOK'
  BY NoRequestFits, SlotSent DEF Handled, Types
<1>2. QED
  BY <1>1 DEF Handled, Types, ViewOK, ServerOK, Quiet, server

LEMMA ReloadsTypes ==
    ASSUME Types, NEW s \in Slots, NEW v, NEW w \in {"busy", "working"}, Reloads(s, v, w),
           v \in Views /\ v.page = view.page,
           v.dialog \in {Nil, view.dialog} /\ v.heading \in {Nil, view.heading}
    PROVE  Types'
<1>1. SentOK'
  BY LoadFits, SlotSent DEF Reloads, Types
<1>2. ViewOK'
  BY LoadingType DEF Reloads, Types, ViewOK
<1>3. QED
  BY <1>1, <1>2 DEF Reloads, Types, ServerOK, Quiet, server

LEMMA PageTypes ==
    ASSUME Types, NEW s \in Slots, PageActs(s)
    PROVE  Types'
<1> USE DEF Types
<1>1. sent[s] \in Asked /\ Fits(sent[s]) /\ view \in Views
  BY DEF SentOK, ViewOK
<1>2. ASSUME sent' = [sent EXCEPT ![s] = NoRequest] PROVE SentOK'
  BY <1>2, NoRequestFits, SlotSent
<1>3. CASE CheckSession(s)
  BY <1>2, <1>3 DEF CheckSession, server, ViewOK, ServerOK
<1>4. CASE SignedOut(s)
  <2>1. \A t \in Slots : Unmounted(t) \in Asked /\ Fits(Unmounted(t))
    BY OrphanFits DEF Unmounted, SentOK
  <2>2. SentOK'
    BY <1>4, <2>1, NoRequestFits DEF SignedOut, SentOK
  <2>3. Mounted(Nil) \in Views /\ Mounted(Nil).dialog = Nil /\ Mounted(Nil).heading = Nil
    BY MountedType DEF PageNames, Mounted
  <2>4. QED
    BY <1>4, <2>2, <2>3 DEF SignedOut, server, ViewOK, ServerOK
<1>5. CASE Loaded(s)
  <2> DEFINE v == [view EXCEPT !.list = [of |-> sent[s].of, items |-> sent[s].items],
                               !.loading = FALSE]
  <2>1. v \in Views /\ v.page = view.page /\ v.dialog = view.dialog /\ v.heading = view.heading
    BY <1>1 DEF Views, Lists, Asked
  <2>2. sent[s].then \in {"busy", "working", Nil}
    BY <1>1 DEF Asked
  <2>3. Handled(s, Reset(v, sent[s].then))
    BY <1>5 DEF Loaded
  <2> HIDE DEF v
  <2>4. QED
    BY <2>1, <2>2, <2>3, HandledTypes, ResetType
<1>6. CASE Created(s)
  <2> DEFINE v == [view EXCEPT !.secret = [of |-> sent[s].of, number |-> sent[s].number]]
  <2>1. v \in Views /\ v.page = view.page /\ v.dialog = view.dialog /\ v.heading = view.heading
    BY <1>1 DEF Views, Told, Asked
  <2>2. Reloads(s, v, "busy")
    BY <1>6 DEF Created
  <2> HIDE DEF v
  <2>3. QED
    BY <2>1, <2>2, ReloadsTypes
<1>7. CASE Removed(s)
  <2> DEFINE v == [view EXCEPT !.dialog = Nil, !.heading = IF sent[s].closes THEN Nil ELSE @]
  <2>1. /\ v \in Views /\ v.page = view.page /\ v.dialog = Nil
        /\ v.heading \in {Nil, view.heading}
    BY <1>1 DEF Views
  <2>2. Reloads(s, v, "working")
    BY <1>7 DEF Removed
  <2> HIDE DEF v
  <2>3. QED
    BY <2>1, <2>2, ReloadsTypes
<1>8. CASE Tested(s)
  BY <1>1, <1>8, ResetType, HandledTypes DEF Tested
<1>9. CASE Rotated(s)
  <2> DEFINE v == [Reset(view, "working") EXCEPT
                     !.secret = [of |-> sent[s].of, number |-> sent[s].number]]
  <2>1. v \in Views /\ v.page = view.page /\ v.dialog = view.dialog /\ v.heading = view.heading
    BY <1>1, ResetType DEF Views, Told, Asked
  <2>2. Handled(s, v)
    BY <1>9 DEF Rotated
  <2> HIDE DEF v
  <2>3. QED
    BY <2>1, <2>2, HandledTypes
<1>10. CASE DeliveriesLoaded(s)
  <2> DEFINE v == [view EXCEPT !.deliveries = sent[s].of, !.fetching = FALSE]
  <2>1. v \in Views /\ v.page = view.page /\ v.dialog = view.dialog /\ v.heading = view.heading
    BY <1>1 DEF Views, Asked
  <2>2. Handled(s, v)
    BY <1>10 DEF DeliveriesLoaded
  <2> HIDE DEF v
  <2>3. QED
    BY <2>1, <2>2, HandledTypes
<1>11. CASE Generated(s)
  <2>1. sent[s].number \in Nat
    BY <1>1 DEF Asked
  <2>2. ViewOK'
    BY <1>1, <1>11, <2>1 DEF Generated, ViewOK, Views, Told, Things
  <2>3. QED
    BY <1>2, <1>11, <2>1, <2>2 DEF Generated, server, ServerOK
<1>12. CASE Confirmed(s)
  <2> DEFINE v == [view EXCEPT !.dialog = Nil]
  <2>1. v \in Views /\ v.page = view.page /\ v.dialog = Nil /\ v.heading = view.heading
    BY <1>1 DEF Views
  <2>2. Reloads(s, v, "busy")
    BY <1>12 DEF Confirmed
  <2> HIDE DEF v
  <2>3. QED
    BY <2>1, <2>2, ReloadsTypes
<1>13. CASE Fails(s)
  <2>1. /\ Failed(view, sent[s]) \in Views /\ Failed(view, sent[s]).page = view.page
        /\ Failed(view, sent[s]).dialog = view.dialog
        /\ Failed(view, sent[s]).heading = view.heading
    BY <1>1 DEF Failed, Reset, Views, Asked
  <2>2. SentOK'
    BY <1>1, <1>13, NoRequestFits, OrphanFits, SlotSent DEF Fails
  <2>3. tangled' \in BOOLEAN
    BY <1>13 DEF Fails
  <2>4. QED
    BY <1>13, <2>1, <2>2, <2>3 DEF Fails, Quiet, server, ViewOK, ServerOK
<1>14. CASE FailsLayout(s)
  <2>1. [sent[s] EXCEPT !.answer = "failed"] \in Asked /\ Fits([sent[s] EXCEPT !.answer = "failed"])
    BY <1>1 DEF Asked, Fits
  <2>2. SentOK'
    BY <1>14, <2>1, SlotSent DEF FailsLayout
  <2>3. QED
    BY <1>14, <2>2 DEF FailsLayout, server, ViewOK, ServerOK
<1>15. CASE Forgotten(s)
  BY <1>2, <1>15 DEF Forgotten, server, ViewOK, ServerOK
<1>16. QED
  BY <1>3, <1>4, <1>5, <1>6, <1>7, <1>8, <1>9, <1>10, <1>11, <1>12, <1>13, <1>14, <1>15
  DEF PageActs

LEMMA TypesStep == Types /\ [DashNext]_dashVars => Types'
<1> SUFFICES ASSUME Types, [DashNext]_dashVars PROVE Types'
  OBVIOUS
<1>1. CASE UNCHANGED dashVars
  BY <1>1 DEF dashVars, server, Types, SentOK, ViewOK, ServerOK
<1>2. ASSUME NEW i \in Items, OpenDialog(i) PROVE Types'
  <2>1. ViewOK'
    BY <1>2 DEF OpenDialog, At, Types, ViewOK, Views
  <2>2. QED
    BY <1>2, <2>1 DEF OpenDialog, Quiet, server, Types, SentOK, ServerOK
<1>3. CASE CloseDialog \/ CloseDeliveries
  <2>1. ViewOK'
    BY <1>3 DEF CloseDialog, CloseDeliveries, Types, ViewOK, Views
  <2>2. QED
    BY <1>3, <2>1 DEF CloseDialog, CloseDeliveries, Quiet, server, Types, SentOK, ServerOK
<1>4. CASE SessionChanges
  BY <1>4 DEF SessionChanges, Types, SentOK, ViewOK, ServerOK
<1>5. QED
  BY <1>1, <1>2, <1>3, <1>4, UserTypes, ServeTypes, PageTypes DEF DashNext


-----------------------------------------------------------------------------
(* The strengthened parts of PagesSound.                                   *)

(* A code is sent for a secret that was shown; showing is never undone.    *)
ShownFirst ==
    /\ factor.enabled # 0 => factor.enabled \in shown
    /\ \A s \in Slots : sent[s].kind = "enable" => sent[s].number \in shown

(* A load that goes on when it is answered cannot be called off.           *)
Ends == NeverStuck /\ \A s \in Slots : sent[s].then # Nil => ~sent[s].signal

Headed ==
    view.heading # Nil /\ ~view.raced =>
        /\ view.deliveries \in {Nil, view.heading}
        /\ \A s \in Of({"deliveries"}) : sent[s].of = view.heading

Filtered ==
    view.page = "approvals" /\ ~view.raced =>
        /\ \A s \in Of({"load"}) : sent[s].of = view.filter
        /\ Of({"load"}) = {} /\ ~view.error => view.list.of = view.filter

(* What is listed, shown or rotated has a secret; what is being created    *)
(* has one exactly when its creation was answered, and is created once.    *)
Made(i) == number[i] > 0
Proper(r) ==
    /\ r.kind = "create" => (r.answer = "none" <=> ~Made(r.of))
    /\ r.kind = "rotate" => Made(r.of)
    /\ \A i \in r.items : Made(i)
Known ==
    /\ \A i \in alive : Made(i)
    /\ \A i \in view.list.items : Made(i)
    /\ view.secret.of \in Items => Made(view.secret.of)
    /\ \A s \in Slots : Proper(sent[s])
    /\ \A s, t \in Slots :
          sent[s].kind = "create" /\ sent[t].kind = "create" /\ sent[s].of = sent[t].of => s = t

(* While no work overlaps other work: work from a row of the list is one   *)
(* request at a time, the row it is on is disabled, and a secret that was  *)
(* answered or is shown is the newest of its webhook.                      *)
Current ==
    ~tangled =>
        /\ \A s \in AtWork : sent[s].by
        /\ \A s, t \in AtWork : sent[s].kind # "create" /\ sent[t].kind # "create" => s = t
        /\ \A s \in AtWork : sent[s].kind \in {"rotate", "remove", "test"} =>
              view.working = sent[s].of
        /\ \A s, t \in Slots : sent[s].kind = "create" /\ sent[t].kind = "rotate" =>
              sent[s].of # sent[t].of
        /\ \A s \in Slots : sent[s].kind \in {"create", "rotate"} /\ sent[s].answer # "none" =>
              sent[s].number = number[sent[s].of]
        /\ \A s \in Slots : sent[s].kind = "rotate" => view.secret.of # sent[s].of
        /\ view.secret.of \in Items => view.secret.number = number[view.secret.of]

PagesInv == ShownFirst /\ Ends /\ Headed /\ Filtered /\ Known /\ Current


-----------------------------------------------------------------------------
(* What a step does to the requests, said once for all the parts.          *)

LEMMA OrphanKeeps ==
    ASSUME NEW r \in Asked
    PROVE  \/ Orphan(r) = NoRequest
           \/ /\ Orphan(r).kind = r.kind /\ Orphan(r).of = r.of /\ Orphan(r).number = r.number
              /\ Orphan(r).items = r.items /\ Orphan(r).answer = r.answer
              /\ Orphan(r).then = r.then /\ ~Orphan(r).by
              /\ r.kind \in Changes /\ r.answer = "none"
BY DEF Orphan, Asked

LEMMA NoRequestIs ==
    /\ NoRequest.kind = Nil /\ NoRequest.of = Nil /\ NoRequest.items = {} /\ NoRequest.by
    /\ NoRequest.then = Nil /\ ~NoRequest.signal /\ NoRequest.answer = "none"
BY DEF NoRequest, Request

LEMMA LoadIs ==
    ASSUME NEW v \in Views, NEW b \in BOOLEAN, NEW w \in {"busy", "working", Nil}
    PROVE  /\ LoadOf(v, b).kind = "load" /\ LoadOf(v, b).by /\ LoadOf(v, b).items = {}
           /\ LoadOf(v, b).then = Nil /\ LoadOf(v, b).signal = b
           /\ LoadOf(v, b).of = IF v.page = "approvals" THEN v.filter ELSE "all"
           /\ [LoadOf(v, b) EXCEPT !.then = w].kind = "load"
           /\ [LoadOf(v, b) EXCEPT !.then = w].by
           /\ [LoadOf(v, b) EXCEPT !.then = w].items = {}
           /\ [LoadOf(v, b) EXCEPT !.then = w].then = w
           /\ [LoadOf(v, b) EXCEPT !.then = w].signal = b
           /\ [LoadOf(v, b) EXCEPT !.then = w].of = LoadOf(v, b).of
BY DEF LoadOf, Request

(* An answer changes what came back, and of a load of the settings, of what *)
(* it is; nobody is left to read it when the page was unmounted.            *)
LEMMA ServeAnswers ==
    ASSUME Types, NEW s \in Slots, Serve(s)
    PROVE  /\ view' = view /\ tangled' = tangled
           /\ \A t \in Slots : t # s => sent'[t] = sent[t]
           /\ sent[s].answer = "none"
           /\ ~sent[s].by => sent'[s] = NoRequest
           /\ sent[s].by =>
                /\ sent'[s].kind = sent[s].kind /\ sent'[s].by /\ sent'[s].answer = "ok"
                /\ sent'[s].then = sent[s].then /\ sent'[s].signal = sent[s].signal
                /\ \/ sent'[s].of = sent[s].of
                   \/ view.page = "settings" /\ sent[s].kind = "load"
<1>1. sent \in [Slots -> Asked] /\ sent[s] \in Asked
  BY DEF Types, SentOK
<1> DEFINE Alike(r) == /\ r \in Asked /\ r.kind = sent[s].kind /\ r.by = sent[s].by
                       /\ r.then = sent[s].then /\ r.signal = sent[s].signal
                       /\ \/ r.of = sent[s].of
                          \/ view.page = "settings" /\ sent[s].kind = "load"
<1>2. Alike(sent[s])
  BY <1>1
<1>3. \A n \in Nat : Alike([sent[s] EXCEPT !.number = n])
  BY <1>1 DEF Asked
<1>4. Alike([sent[s] EXCEPT !.items = Rows(view.page)])
  <2>1. Rows(view.page) \subseteq Items
    BY RowsAreAlive DEF Types, ServerOK
  <2>2. QED
    BY <1>1, <2>1 DEF Asked
<1>5. view.page = "settings" /\ sent[s].kind = "load" =>
          Alike([sent[s] EXCEPT !.of = "off"]) /\ Alike([sent[s] EXCEPT !.of = "on"])
  BY <1>1 DEF Asked, Things
<1>6. PICK r : Answers(s, r) /\ Alike(r)
  <2> HIDE DEF Alike
  <2>1. ServeSession(s) \/ ServeLogout(s) \/ ServeRead(s) \/ ServeRemove(s) \/ ServeEnable(s)
        => Answers(s, sent[s])
    BY DEF ServeSession, ServeLogout, ServeRead, ServeRemove, ServeEnable
  <2>2. ServeLoad(s) =>
            \/ sent[s].kind = "load" /\ view.page = "settings"
                  /\ \/ Answers(s, [sent[s] EXCEPT !.of = "off"])
                     \/ Answers(s, [sent[s] EXCEPT !.of = "on"])
            \/ Answers(s, [sent[s] EXCEPT !.items = Rows(view.page)])
    BY DEF ServeLoad
  <2>3. ServeCreate(s) \/ ServeRotate(s) \/ ServeGenerate(s)
        => \E n \in Nat : Answers(s, [sent[s] EXCEPT !.number = n])
    <3>1. ServeRotate(s) => number[sent[s].of] + 1 \in Nat
      BY DEF ServeRotate, Types, ServerOK
    <3>2. factor.made + 1 \in Nat
      BY DEF Types, ServerOK
    <3>3. QED
      BY <3>1, <3>2 DEF ServeCreate, ServeRotate, ServeGenerate
  <2>4. QED
    BY <1>2, <1>3, <1>4, <1>5, <2>1, <2>2, <2>3 DEF Serve
<1>7. \A t \in Slots : t # s => sent'[t] = sent[t]
  BY <1>1, <1>6 DEF Answers
<1>8. sent'[s] = IF r.by THEN [r EXCEPT !.answer = "ok"] ELSE NoRequest
  BY <1>1, <1>6 DEF Answers
<1>9. /\ [r EXCEPT !.answer = "ok"].kind = r.kind /\ [r EXCEPT !.answer = "ok"].by = r.by
      /\ [r EXCEPT !.answer = "ok"].then = r.then /\ [r EXCEPT !.answer = "ok"].of = r.of
      /\ [r EXCEPT !.answer = "ok"].signal = r.signal /\ [r EXCEPT !.answer = "ok"].answer = "ok"
  BY <1>6 DEF Asked
<1>10. QED
  BY <1>6, <1>7, <1>8, <1>9 DEF Answers

-----------------------------------------------------------------------------
(* A code is only accepted for a secret that was shown.                    *)

LEMMA ShownStep == Types /\ ShownFirst /\ [DashNext]_dashVars => ShownFirst'
<1> SUFFICES ASSUME Types, ShownFirst, [DashNext]_dashVars PROVE ShownFirst'
  OBVIOUS
<1>1. \A t \in Slots : sent[t] \in Asked
  BY DEF Types, SentOK
<1>2. sent \in [Slots -> Asked] /\ view \in Views
  BY DEF Types, SentOK, ViewOK
<1>3. ASSUME shown \subseteq shown',
             factor'.enabled = factor.enabled \/ factor'.enabled \in shown,
             \A t \in Slots : sent'[t].kind = "enable" =>
                \/ sent[t].kind = "enable" /\ sent'[t].number = sent[t].number
                \/ sent'[t].number \in shown
      PROVE  ShownFirst'
  BY <1>3 DEF ShownFirst
<1>4. ASSUME NEW s \in Slots, UserActs(s) PROVE ShownFirst'
  <2>1. factor' = factor /\ shown' = shown
    BY <1>4 DEF UserActs, Enter, SignOut, Retry, Remove, Start2faSetup, Confirm2fa, Mount,
      ChooseFilter, CreateKey, CreateWebhook, Create, TestWebhook, RotateSecret, Work,
      LoadDeliveries, Quiet, server
  <2>2. ASSUME NEW r, r.kind # "enable" \/ r.number \in shown, SendAs(s, r)
        PROVE  ShownFirst'
    BY <1>2, <1>3, <2>1, <2>2 DEF SendAs
  <2>3. CASE Enter(s) \/ SignOut(s) \/ Start2faSetup(s)
             \/ \E h \in Hooks : LoadDeliveries(s, h)
    BY <2>2, <2>3 DEF Enter, SignOut, Start2faSetup, LoadDeliveries, Request
  <2>4. CASE Retry(s)
    BY <1>2, <2>2, <2>4, LoadIs DEF Retry
  <2>5. ASSUME NEW r, NEW v, Work(s, r, v), r.kind # "enable" PROVE ShownFirst'
    BY <2>2, <2>5 DEF Work
  <2>6. CASE Remove(s)
    <3>1. Work(s, [Request("remove", view.dialog) EXCEPT !.closes = (view.heading = view.dialog)], view)
      BY <2>6 DEF Remove
    <3>2. QED
      BY <2>5, <3>1 DEF Request
  <2>7. ASSUME NEW h \in Hooks, TestWebhook(s, h) \/ RotateSecret(s, h) PROVE ShownFirst'
    BY <2>5, <2>7 DEF TestWebhook, RotateSecret, Request
  <2>8. ASSUME NEW i \in Items, Create(s, i) PROVE ShownFirst'
    BY <2>2, <2>8 DEF Create, Request
  <2>9. CASE Confirm2fa(s)
    <3>1. PICK n \in shown : SendAs(s, [Request("enable", "setup") EXCEPT !.number = n])
      BY <2>9 DEF Confirm2fa
    <3>2. QED
      BY <2>2, <3>1 DEF Request
  <2>10. ASSUME NEW p \in PageNames, Mount(s, p) PROVE ShownFirst'
    <3>1. LoadOf(Mounted(p), TRUE).kind = "load"
      BY MountedType, LoadIs
    <3>2. QED
      BY <1>1, <1>3, <2>1, <2>10, <3>1, OrphanKeeps, NoRequestIs DEF Mount, Unmounted
  <2>11. ASSUME NEW f \in Tabs, ChooseFilter(s, f) PROVE ShownFirst'
    <3>1. sent' = [t \in Slots |-> IF t = s THEN LoadOf(Choosing(f), TRUE)
                                   ELSE IF t \in CalledOff THEN NoRequest ELSE sent[t]]
      BY <2>11 DEF ChooseFilter, Choosing
    <3>2. \A v : LoadOf(v, TRUE).kind = "load"
      BY DEF LoadOf, Request
    <3>3. QED
      BY <1>3, <2>1, <3>1, <3>2, NoRequestIs
  <2>12. QED
    BY <1>4, <2>3, <2>4, <2>6, <2>7, <2>8, <2>9, <2>10, <2>11
    DEF UserActs, CreateKey, CreateWebhook, Items, PageNames, Tabs
<1>5. ASSUME NEW s \in Slots, Serve(s) PROVE ShownFirst'
  <2>1. ASSUME NEW r, Answers(s, r), r.kind = sent[s].kind, r.kind = "enable" => r = sent[s],
               factor'.enabled = factor.enabled \/ factor'.enabled \in shown
        PROVE  ShownFirst'
    <3>1. shown' = shown
      BY <2>1 DEF Answers
    <3>2. \A t \in Slots : sent'[t] = sent[t] \/ sent'[t] = [r EXCEPT !.answer = "ok"]
                           \/ sent'[t] = NoRequest
      BY <1>2, <2>1 DEF Answers
    <3>3. \A t \in Slots : t # s => sent'[t] = sent[t]
      BY <1>2, <2>1 DEF Answers
    <3>4. [r EXCEPT !.answer = "ok"].kind = "enable" => 
            [r EXCEPT !.answer = "ok"].number = sent[s].number /\ sent[s].kind = "enable"
      BY <1>1, <2>1 DEF Asked
    <3>5. QED
      BY <1>3, <2>1, <3>1, <3>2, <3>3, <3>4, NoRequestIs
  <2>2. CASE ServeEnable(s)
    <3>1. factor'.enabled = factor.pending /\ sent[s].number = factor.pending /\ sent[s].kind = "enable"
      BY <2>2 DEF ServeEnable, Types, ServerOK
    <3>2. factor.pending \in shown
      BY <3>1 DEF ShownFirst
    <3>3. QED
      BY <2>1, <2>2, <3>1, <3>2 DEF ServeEnable
  <2>3. QED
    BY <1>1, <2>1, <2>2, <1>5 DEF Serve, ServeSession, ServeLogout, ServeLoad, ServeRead, ServeCreate,
      ServeRemove, ServeRotate, ServeGenerate, server, Types, ServerOK, Asked
<1>6. ASSUME NEW s \in Slots, PageActs(s) PROVE ShownFirst'
  <2>1. factor' = factor /\ shown \subseteq shown'
    BY <1>6 DEF PageActs, CheckSession, SignedOut, Loaded, Created, Removed, Tested, Rotated,
      DeliveriesLoaded, Generated, Confirmed, Fails, FailsLayout, Forgotten, Handled, Reloads,
      Quiet, server
  <2>2. ASSUME sent' = [sent EXCEPT ![s] = NoRequest] PROVE ShownFirst'
    BY <1>2, <1>3, <2>1, <2>2, NoRequestIs
  <2>3. CASE CheckSession(s) \/ Loaded(s) \/ Tested(s) \/ Rotated(s) \/ DeliveriesLoaded(s)
             \/ Generated(s) \/ Forgotten(s)
    BY <2>2, <2>3 DEF CheckSession, Loaded, Tested, Rotated, DeliveriesLoaded, Generated,
      Forgotten, Handled
  <2>4. CASE Created(s) \/ Removed(s) \/ Confirmed(s)
    <3>1. \E v, w : sent' = [sent EXCEPT ![s] = [LoadOf(v, FALSE) EXCEPT !.then = w]]
      BY <2>4 DEF Created, Removed, Confirmed, Reloads
    <3>2. \A v, w : [LoadOf(v, FALSE) EXCEPT !.then = w].kind = "load"
      BY DEF LoadOf, Request
    <3>3. QED
      BY <1>2, <1>3, <2>1, <3>1, <3>2
  <2>5. CASE SignedOut(s)
    BY <1>1, <1>3, <2>1, <2>5, OrphanKeeps, NoRequestIs DEF SignedOut, Unmounted
  <2>6. CASE Fails(s)
    BY <1>1, <1>2, <1>3, <2>1, <2>6, OrphanKeeps, NoRequestIs DEF Fails
  <2>7. CASE FailsLayout(s)
    BY <1>1, <1>2, <1>3, <2>1, <2>7 DEF FailsLayout, Asked
  <2>8. QED
    BY <1>6, <2>3, <2>4, <2>5, <2>6, <2>7 DEF PageActs
<1>7. CASE \/ \E i \in Items : OpenDialog(i)
           \/ CloseDialog \/ CloseDeliveries \/ SessionChanges
  BY <1>7 DEF OpenDialog, CloseDialog, CloseDeliveries, SessionChanges, Quiet, server, ShownFirst
<1>8. CASE UNCHANGED dashVars
  BY <1>8 DEF dashVars, server, ShownFirst
<1>9. QED
  BY <1>4, <1>5, <1>6, <1>7, <1>8 DEF DashNext


-----------------------------------------------------------------------------
(* Every flag that is set has a request that will reset it.                *)

LEMMA EndsStep == Types /\ Ends /\ [DashNext]_dashVars => Ends'
<1> SUFFICES ASSUME Types, Ends, [DashNext]_dashVars PROVE Ends'
  OBVIOUS
<1>1. sent \in [Slots -> Asked] /\ view \in Views /\ \A t \in Slots : Fits(sent[t])
  BY DEF Types, SentOK, ViewOK
<1>2. \A t \in Slots : sent[t] \in Asked
  BY <1>1
<1>3. ASSUME NEW s \in Slots, NEW r, SendAs(s, r), r.by, r.then = Nil,
             view'.loading => view.loading \/ r.kind = "load",
             view'.fetching => view.fetching \/ r.kind = "deliveries",
             view'.busy => view.busy \/ r.kind \in {"create", "enable"},
             view'.working # Nil => view.working # Nil \/ r.kind \in {"remove", "test", "rotate"}
      PROVE  Ends'
  BY <1>1, <1>3, NoRequestIs DEF Ends, NeverStuck, Of, SendAs
<1>4. ASSUME NEW s \in Slots, NEW r, sent' = [sent EXCEPT ![s] = r], r = NoRequest \/ ~r.by,
             r.then = Nil,
             view'.loading => view.loading /\ (sent[s].by => sent[s].kind # "load"),
             view'.fetching => view.fetching /\ (sent[s].by => sent[s].kind # "deliveries"),
             view'.busy => /\ view.busy
                           /\ sent[s].by => /\ sent[s].kind \notin {"create", "enable"}
                                            /\ sent[s].kind = "load" => sent[s].then # "busy",
             view'.working # Nil =>
                 /\ view.working # Nil
                 /\ sent[s].by => /\ sent[s].kind \notin {"remove", "test", "rotate"}
                                  /\ sent[s].kind = "load" => sent[s].then # "working"
      PROVE  Ends'
  BY <1>1, <1>4, NoRequestIs DEF Ends, NeverStuck, Of
<1>5. ASSUME NEW s \in Slots, NEW v \in Views, NEW w \in {"busy", "working"}, Reloads(s, v, w),
             v.fetching = view.fetching, v.busy = view.busy, v.working = view.working,
             w = "busy" => sent[s].kind \in {"create", "enable"},
             w = "working" => sent[s].kind = "remove"
      PROVE  Ends'
  <2>1. /\ [LoadOf(v, FALSE) EXCEPT !.then = w].kind = "load"
        /\ [LoadOf(v, FALSE) EXCEPT !.then = w].by
        /\ [LoadOf(v, FALSE) EXCEPT !.then = w].then = w
        /\ [LoadOf(v, FALSE) EXCEPT !.then = w].signal = FALSE
    BY DEF LoadOf, Request
  <2>2. PICK r : /\ sent' = [sent EXCEPT ![s] = r]
                 /\ r.kind = "load" /\ r.by /\ r.then = w /\ ~r.signal
    BY <1>5, <2>1 DEF Reloads
  <2>3. view'.fetching = v.fetching /\ view'.busy = v.busy /\ view'.working = v.working
    BY <1>5 DEF Reloads, Loading, Views
  <2>4. QED
    BY <1>1, <1>5, <2>2, <2>3 DEF Ends, NeverStuck, Of
<1>6. ASSUME NEW s \in Slots, UserActs(s) PROVE Ends'
  <2>1. CASE Enter(s) \/ SignOut(s)
    BY <1>3, <2>1 DEF Enter, SignOut, Request
  <2>2. CASE Retry(s)
    BY <1>1, <1>3, <2>2, LoadIs DEF Retry, Loading, Views
  <2>3. ASSUME NEW k \in {"remove", "test", "rotate"}, NEW r, r.kind = k, r.by, r.then = Nil, NEW v,
               Work(s, r, v), v \in Views,
               v.loading = view.loading, v.busy = view.busy, v.fetching = view.fetching
        PROVE  Ends'
    BY <1>1, <1>3, <2>3 DEF Work, Views
  <2>4. CASE Remove(s)
    <3>1. Work(s, [Request("remove", view.dialog) EXCEPT !.closes = (view.heading = view.dialog)], view)
      BY <2>4 DEF Remove
    <3>2. QED
      BY <1>1, <2>3, <3>1 DEF Request
  <2>5. ASSUME NEW h \in Hooks, TestWebhook(s, h) \/ RotateSecret(s, h) PROVE Ends'
    <3>1. view \in Views /\ [view EXCEPT !.secret = NoSecret] \in Views
      BY <1>1 DEF Views, Told, Things
    <3>2. PICK v \in {view, [view EXCEPT !.secret = NoSecret]}, k \in {"test", "rotate"} :
              Work(s, Request(k, h), v)
      BY <2>5 DEF TestWebhook, RotateSecret
    <3>3. v.loading = view.loading /\ v.busy = view.busy /\ v.fetching = view.fetching
      BY <1>1, <3>2 DEF Views
    <3>4. Request(k, h).kind = k /\ Request(k, h).by /\ Request(k, h).then = Nil
      BY DEF Request
    <3>5. QED
      BY <2>3, <3>1, <3>2, <3>3, <3>4
  <2>6. ASSUME NEW i \in Items, Create(s, i) PROVE Ends'
    BY <1>1, <1>3, <2>6 DEF Create, Request, Views
  <2>7. CASE Start2faSetup(s) \/ \E h \in Hooks : LoadDeliveries(s, h)
    BY <1>1, <1>3, <2>7 DEF Start2faSetup, LoadDeliveries, Request, Views
  <2>8. CASE Confirm2fa(s)
    <3>1. PICK n \in shown : SendAs(s, [Request("enable", "setup") EXCEPT !.number = n])
      BY <2>8 DEF Confirm2fa
    <3>2. view' = [view EXCEPT !.busy = TRUE]
      BY <2>8 DEF Confirm2fa
    <3>3. QED
      BY <1>1, <1>3, <3>1, <3>2 DEF Request, Views
  <2>9. ASSUME NEW p \in PageNames, Mount(s, p) PROVE Ends'
    <3>1. Mounted(p) \in Views
      BY MountedType
    <3>2. LoadOf(Mounted(p), TRUE).kind = "load" /\ LoadOf(Mounted(p), TRUE).by
          /\ LoadOf(Mounted(p), TRUE).then = Nil
      BY <3>1, LoadIs
    <3>3. /\ ~view'.fetching /\ ~view'.busy /\ view'.working = Nil
      BY <2>9 DEF Mount, Loading, Mounted
    <3>4. \A t \in Slots : Unmounted(t).then = Nil
      BY <1>1, <1>2, OrphanKeeps, NoRequestIs DEF Unmounted, Fits, Changes
    <3>5. sent'[s].kind = "load" /\ sent'[s].by /\ \A t \in Slots : sent'[t].then = Nil
      BY <2>9, <3>2, <3>4 DEF Mount
    <3>6. QED
      BY <3>3, <3>5 DEF Ends, NeverStuck, Of
  <2>10. ASSUME NEW f \in Tabs, ChooseFilter(s, f) PROVE Ends'
    <3> DEFINE v == Choosing(f)
    <3>1. /\ v = [view EXCEPT !.filter = f, !.raced = Of({"load"}) # Called]
          /\ \E failed \in BOOLEAN :
                view' = [Loading(v) EXCEPT !.loading = (CalledOff = {}), !.error = failed]
          /\ sent' = [t \in Slots |-> IF t = s THEN LoadOf(v, TRUE)
                                       ELSE IF t \in CalledOff THEN NoRequest ELSE sent[t]]
      <4>1. v = [view EXCEPT !.filter = f, !.raced = Of({"load"}) # Called]
        BY DEF Choosing
      <4>2. \E failed \in BOOLEAN :
               view' = [Loading(v) EXCEPT !.loading = (CalledOff = {}), !.error = failed]
        BY <2>10 DEF ChooseFilter, Choosing
      <4>3. sent' = [t \in Slots |-> IF t = s THEN LoadOf(v, TRUE)
                                     ELSE IF t \in CalledOff THEN NoRequest ELSE sent[t]]
        BY <2>10 DEF ChooseFilter, Choosing
      <4>4. QED
        BY <4>1, <4>2, <4>3
    <3> HIDE DEF v
    <3>2. LoadOf(v, TRUE).kind = "load" /\ LoadOf(v, TRUE).by /\ LoadOf(v, TRUE).then = Nil
      BY DEF LoadOf, Request
    <3>3. view'.fetching = view.fetching /\ view'.busy = view.busy /\ view'.working = view.working
      BY <1>1, <3>1 DEF Loading, Views
    <3>4. sent[s] = NoRequest \/ s \in CalledOff
      BY <2>10 DEF ChooseFilter
    <3>5. \A t \in Slots : sent[t].then # Nil => t \notin CalledOff /\ t # s
      BY <3>4, NoRequestIs DEF CalledOff, Called, Ends
    <3>6. sent'[s].kind = "load" /\ sent'[s].by /\ sent'[s].then = Nil
      BY <3>1, <3>2
    <3>7. \A t \in Slots : sent'[t].then # Nil => sent'[t] = sent[t]
      BY <3>1, <3>2, NoRequestIs
    <3>8. \A t \in Slots : sent[t].kind # "load" /\ sent[t] # NoRequest => sent'[t] = sent[t]
      BY <3>1, <3>4 DEF CalledOff, Called
    <3>9. \A t \in Slots : sent[t].then # Nil => sent'[t] = sent[t]
      BY <3>1, <3>5
    <3>10. QED
      BY <3>3, <3>6, <3>7, <3>8, <3>9, NoRequestIs DEF Ends, NeverStuck, Of
  <2>11. QED
    BY <1>6, <2>1, <2>2, <2>4, <2>5, <2>6, <2>7, <2>8, <2>9, <2>10
    DEF UserActs, CreateKey, CreateWebhook, Items, PageNames, Tabs
<1>7. ASSUME NEW s \in Slots, Serve(s) PROVE Ends'
  <2>1. \A t \in Slots : sent[t].by =>
            sent'[t].kind = sent[t].kind /\ sent'[t].by /\ sent'[t].then = sent[t].then
    BY <1>7, ServeAnswers
  <2>2. \A t \in Slots : sent'[t].then # Nil => ~sent'[t].signal
    BY <1>7, ServeAnswers, NoRequestIs DEF Ends
  <2>3. view' = view
    BY <1>7, ServeAnswers
  <2>4. QED
    BY <2>1, <2>2, <2>3 DEF Ends, NeverStuck, Of
<1>8. ASSUME NEW s \in Slots, PageActs(s) PROVE Ends'
  <2>1. NoRequest.then = Nil
    BY NoRequestIs
  <2>2. CASE CheckSession(s) \/ Forgotten(s) \/ Generated(s)
    BY <1>1, <1>4, <2>1, <2>2 DEF CheckSession, Forgotten, Generated, Answered, Views
  <2>3. CASE SignedOut(s)
    <3>1. ~view'.loading /\ ~view'.fetching /\ ~view'.busy /\ view'.working = Nil
      BY <2>3 DEF SignedOut, Mounted
    <3>2. \A t \in Slots : Unmounted(t).then = Nil
      BY <1>1, <1>2, OrphanKeeps, NoRequestIs DEF Unmounted, Fits, Changes
    <3>3. \A t \in Slots : sent'[t].then = Nil
      BY <2>1, <2>3, <3>2 DEF SignedOut
    <3>4. QED
      BY <3>1, <3>3 DEF Ends, NeverStuck, Of
  <2>4. ASSUME NEW v, Handled(s, v), sent[s].kind \in {"load", "test", "rotate", "deliveries"},
               v.loading => view.loading /\ sent[s].kind # "load",
               v.fetching => view.fetching /\ sent[s].kind # "deliveries",
               v.busy => view.busy /\ sent[s].then # "busy",
               v.working # Nil => view.working # Nil /\ sent[s].kind \notin {"test", "rotate"}
                                  /\ sent[s].then # "working"
        PROVE  Ends'
    BY <1>4, <2>1, <2>4 DEF Handled
  <2>5. CASE Loaded(s)
    <3> DEFINE v == [view EXCEPT !.list = [of |-> sent[s].of, items |-> sent[s].items],
                                 !.loading = FALSE]
    <3>1. ~v.loading /\ v.fetching = view.fetching /\ v.busy = view.busy
          /\ v.working = view.working
      BY <1>1 DEF Views
    <3>2. v \in Views
      BY <1>1, <1>2 DEF Views, Lists, Asked
    <3>3. Handled(s, Reset(v, sent[s].then)) /\ sent[s].kind = "load"
      BY <2>5 DEF Loaded, Answered
    <3> HIDE DEF v
    <3>4. QED
      BY <2>4, <3>1, <3>2, <3>3 DEF Reset, Views
  <2>6. CASE Tested(s)
    BY <1>1, <2>4, <2>6 DEF Tested, Answered, Reset, Views, Fits
  <2>7. CASE Rotated(s)
    BY <1>1, <2>4, <2>7 DEF Rotated, Answered, Reset, Views, Fits
  <2>8. CASE DeliveriesLoaded(s)
    BY <1>1, <2>4, <2>8 DEF DeliveriesLoaded, Answered, Views, Fits
  <2>9. CASE Created(s)
    <3> DEFINE v == [view EXCEPT !.secret = [of |-> sent[s].of, number |-> sent[s].number]]
    <3>1. v \in Views /\ v.fetching = view.fetching /\ v.busy = view.busy
          /\ v.working = view.working
      BY <1>1, <1>2 DEF Views, Told, Asked
    <3>2. Reloads(s, v, "busy") /\ sent[s].kind = "create"
      BY <2>9 DEF Created, Answered
    <3> HIDE DEF v
    <3>3. QED
      BY <1>5, <3>1, <3>2
  <2>10. CASE Removed(s)
    <3> DEFINE v == [view EXCEPT !.dialog = Nil, !.heading = IF sent[s].closes THEN Nil ELSE @]
    <3>1. v \in Views /\ v.fetching = view.fetching /\ v.busy = view.busy
          /\ v.working = view.working
      BY <1>1, <1>2 DEF Views, Asked
    <3>2. Reloads(s, v, "working") /\ sent[s].kind = "remove"
      BY <2>10 DEF Removed, Answered
    <3> HIDE DEF v
    <3>3. QED
      BY <1>5, <3>1, <3>2
  <2>11. CASE Confirmed(s)
    <3> DEFINE v == [view EXCEPT !.dialog = Nil]
    <3>1. v \in Views /\ v.fetching = view.fetching /\ v.busy = view.busy
          /\ v.working = view.working
      BY <1>1, <1>2 DEF Views, Asked
    <3>2. Reloads(s, v, "busy") /\ sent[s].kind = "enable"
      BY <2>11 DEF Confirmed, Answered
    <3> HIDE DEF v
    <3>3. QED
      BY <1>5, <3>1, <3>2
  <2>12. CASE Fails(s)
    <3>1. PICK r \in {NoRequest, Orphan(sent[s])} : sent' = [sent EXCEPT ![s] = r]
      BY <2>12 DEF Fails
    <3>2. r.then = Nil /\ (r = NoRequest \/ ~r.by)
      BY <1>1, <1>2, <3>1, OrphanKeeps, NoRequestIs DEF Fits, Changes
    <3>3. view' = Failed(view, sent[s]) /\ sent[s].kind \notin {Nil, "session", "logout"}
      BY <2>12 DEF Fails
    <3>4. sent[s].then \in {"busy", "working", Nil} /\ sent[s].kind \in Kinds
      BY <1>2 DEF Asked
    <3>5. CASE sent[s].kind = "load"
      BY <1>1, <1>4, <3>1, <3>2, <3>3, <3>4, <3>5 DEF Failed, Reset, Views
    <3>6. CASE sent[s].kind # "load"
      BY <1>1, <1>4, <3>1, <3>2, <3>3, <3>4, <3>6 DEF Failed, Views, Kinds
    <3>7. QED
      BY <3>5, <3>6
  <2>13. CASE FailsLayout(s)
    <3>1. view' = view /\ \A t \in Slots : /\ sent'[t].kind = sent[t].kind
             /\ sent'[t].by = sent[t].by /\ sent'[t].then = sent[t].then
             /\ sent'[t].signal = sent[t].signal
      BY <1>1, <1>2, <2>13 DEF FailsLayout, Asked
    <3>2. QED
      BY <3>1 DEF Ends, NeverStuck, Of
  <2>14. QED
    BY <1>8, <2>2, <2>3, <2>5, <2>6, <2>7, <2>8, <2>9, <2>10, <2>11, <2>12, <2>13 DEF PageActs
<1>9. CASE \/ \E i \in Items : OpenDialog(i)
           \/ CloseDialog \/ CloseDeliveries \/ SessionChanges \/ UNCHANGED dashVars
  <2>1. sent' = sent /\ view'.loading = view.loading /\ view'.fetching = view.fetching
        /\ view'.busy = view.busy /\ view'.working = view.working
    BY <1>1, <1>9 DEF OpenDialog, CloseDialog, CloseDeliveries, SessionChanges, dashVars, Views
  <2>2. QED
    BY <2>1 DEF Ends, NeverStuck, Of
<1>10. QED
  BY <1>6, <1>7, <1>8, <1>9 DEF DashNext


-----------------------------------------------------------------------------
(* The deliveries are those of the heading.                                *)

LEMMA HeadedStep == Types /\ Headed /\ [DashNext]_dashVars => Headed'
<1> SUFFICES ASSUME Types, Headed, [DashNext]_dashVars PROVE Headed'
  OBVIOUS
<1>1. sent \in [Slots -> Asked] /\ view \in Views /\ \A t \in Slots : sent[t] \in Asked
  BY DEF Types, SentOK, ViewOK
<1>2. ASSUME NEW s \in Slots, NEW r, sent' = [sent EXCEPT ![s] = r],
             r.kind # "deliveries" \/ ~r.by,
             view'.heading \in {Nil, view.heading}, view'.raced = view.raced,
             \/ view'.deliveries = view.deliveries
             \/ view'.deliveries = sent[s].of /\ sent[s].kind = "deliveries" /\ sent[s].by
      PROVE  Headed'
  BY <1>1, <1>2 DEF Headed, Of
<1>3. ASSUME view'.heading = Nil PROVE Headed'
  BY <1>3 DEF Headed
<1>4. ASSUME NEW s \in Slots, NEW r, SendAs(s, r), r.kind # "deliveries",
             view'.heading = view.heading, view'.raced = view.raced,
             view'.deliveries = view.deliveries
      PROVE  Headed'
  BY <1>2, <1>4 DEF SendAs
<1>5. ASSUME NEW s \in Slots, UserActs(s) PROVE Headed'
  <2>1. CASE Enter(s) \/ SignOut(s) \/ Start2faSetup(s)
    BY <1>1, <1>4, <2>1 DEF Enter, SignOut, Start2faSetup, Request, Views
  <2>2. CASE Retry(s)
    BY <1>1, <1>4, <2>2, LoadIs DEF Retry, Loading, Views
  <2>3. ASSUME NEW r, r.kind # "deliveries", NEW v, Work(s, r, v), v \in Views,
               v.heading = view.heading, v.raced = view.raced, v.deliveries = view.deliveries
        PROVE  Headed'
    BY <1>4, <2>3 DEF Work, Views
  <2>4. CASE Remove(s)
    <3>1. Work(s, [Request("remove", view.dialog) EXCEPT !.closes = (view.heading = view.dialog)], view)
      BY <2>4 DEF Remove
    <3>2. QED
      BY <1>1, <2>3, <3>1 DEF Request
  <2>5. ASSUME NEW h \in Hooks, TestWebhook(s, h) \/ RotateSecret(s, h) PROVE Headed'
    <3>1. view \in Views /\ [view EXCEPT !.secret = NoSecret] \in Views
      BY <1>1 DEF Views, Told, Things
    <3>2. PICK v \in {view, [view EXCEPT !.secret = NoSecret]}, k \in {"test", "rotate"} :
              Work(s, Request(k, h), v)
      BY <2>5 DEF TestWebhook, RotateSecret
    <3>3. v.heading = view.heading /\ v.raced = view.raced /\ v.deliveries = view.deliveries
      BY <1>1, <3>2 DEF Views
    <3>4. Request(k, h).kind = k
      BY DEF Request
    <3>5. QED
      BY <2>3, <3>1, <3>2, <3>3, <3>4
  <2>6. ASSUME NEW i \in Items, Create(s, i) PROVE Headed'
    BY <1>1, <1>4, <2>6 DEF Create, Request, Views
  <2>7. ASSUME NEW h \in Hooks, LoadDeliveries(s, h) PROVE Headed'
    <3>1. /\ view'.heading = h /\ view'.deliveries = Nil
          /\ ~view'.raced => Of({"deliveries"}) = {}
      BY <1>1, <2>7 DEF LoadDeliveries, Views
    <3>2. sent' = [sent EXCEPT ![s] = Request("deliveries", h)] /\ Request("deliveries", h).of = h
      BY <2>7 DEF LoadDeliveries, SendAs, Request
    <3>3. QED
      BY <1>1, <3>1, <3>2 DEF Headed, Of
  <2>8. CASE Confirm2fa(s)
    <3>1. PICK n \in shown : SendAs(s, [Request("enable", "setup") EXCEPT !.number = n])
      BY <2>8 DEF Confirm2fa
    <3>2. view' = [view EXCEPT !.busy = TRUE]
      BY <2>8 DEF Confirm2fa
    <3>3. QED
      BY <1>1, <1>4, <3>1, <3>2 DEF Request, Views
  <2>9. ASSUME NEW p \in PageNames, Mount(s, p) PROVE Headed'
    BY <1>3, <2>9 DEF Mount, Loading, Mounted
  <2>10. ASSUME NEW f \in Tabs, ChooseFilter(s, f) PROVE Headed'
    <3>1. view.page = "approvals"
      BY <2>10 DEF ChooseFilter, At
    <3>2. view'.heading = view.heading
      BY <1>1, <2>10 DEF ChooseFilter, Loading, Views
    <3>3. QED
      BY <1>3, <3>1, <3>2 DEF Types, ViewOK
  <2>11. QED
    BY <1>5, <2>1, <2>2, <2>4, <2>5, <2>6, <2>7, <2>8, <2>9, <2>10
    DEF UserActs, CreateKey, CreateWebhook, Items, PageNames, Tabs
<1>6. ASSUME NEW s \in Slots, Serve(s) PROVE Headed'
  <2>1. \A t \in Slots : sent'[t].kind = "deliveries" /\ sent'[t].by =>
            sent[t].kind = "deliveries" /\ sent[t].by /\ sent'[t].of = sent[t].of
    BY <1>6, ServeAnswers, NoRequestIs
  <2>2. view' = view
    BY <1>6, ServeAnswers
  <2>3. QED
    BY <2>1, <2>2 DEF Headed, Of
<1>7. ASSUME NEW s \in Slots, PageActs(s) PROVE Headed'
  <2>1. NoRequest.kind = Nil
    BY NoRequestIs
  <2>2. CASE CheckSession(s) \/ Forgotten(s) \/ Generated(s)
    BY <1>1, <1>2, <2>1, <2>2 DEF CheckSession, Forgotten, Generated, Views
  <2>3. CASE SignedOut(s)
    BY <1>3, <2>3 DEF SignedOut, Mounted
  <2>4. CASE Loaded(s) \/ Tested(s) \/ Rotated(s)
    <3>1. sent' = [sent EXCEPT ![s] = NoRequest]
      BY <2>4 DEF Loaded, Tested, Rotated, Handled
    <3>2. CASE Loaded(s)
      BY <1>1, <1>2, <2>1, <3>1, <3>2 DEF Loaded, Handled, Reset, Views
    <3>3. CASE Tested(s) \/ Rotated(s)
      BY <1>1, <1>2, <2>1, <3>1, <3>3 DEF Tested, Rotated, Handled, Reset, Views
    <3>4. QED
      BY <2>4, <3>2, <3>3
  <2>5. CASE DeliveriesLoaded(s)
    BY <1>1, <1>2, <2>1, <2>5 DEF DeliveriesLoaded, Answered, Handled, Views
  <2>6. CASE Created(s) \/ Removed(s) \/ Confirmed(s)
    <3>1. PICK v, w : /\ sent' = [sent EXCEPT ![s] = [LoadOf(v, FALSE) EXCEPT !.then = w]]
                      /\ view' = Loading(v)
                      /\ \/ v = [view EXCEPT !.secret = [of |-> sent[s].of, number |-> sent[s].number]]
                         \/ v = [view EXCEPT !.dialog = Nil, !.heading = IF sent[s].closes THEN Nil ELSE @]
                         \/ v = [view EXCEPT !.dialog = Nil]
      BY <2>6 DEF Created, Removed, Confirmed, Reloads
    <3>2. [LoadOf(v, FALSE) EXCEPT !.then = w].kind = "load"
      BY DEF LoadOf, Request
    <3>3. /\ view'.heading \in {Nil, view.heading} /\ view'.raced = view.raced
          /\ view'.deliveries = view.deliveries
      BY <1>1, <3>1 DEF Loading, Views
    <3>4. QED
      BY <1>2, <3>1, <3>2, <3>3
  <2>7. CASE Fails(s)
    <3>1. PICK r \in {NoRequest, Orphan(sent[s])} : sent' = [sent EXCEPT ![s] = r]
      BY <2>7 DEF Fails
    <3>2. r.kind # "deliveries" \/ ~r.by
      BY <1>1, <2>1, <3>1, OrphanKeeps
    <3>3. view' = Failed(view, sent[s])
      BY <2>7 DEF Fails
    <3>4. /\ view'.heading = view.heading /\ view'.raced = view.raced
          /\ view'.deliveries = view.deliveries
      BY <1>1, <3>3 DEF Failed, Reset, Views
    <3>5. QED
      BY <1>2, <3>1, <3>2, <3>4
  <2>8. CASE FailsLayout(s)
    BY <1>1, <1>2, <2>8 DEF FailsLayout, Asked
  <2>9. QED
    BY <1>7, <2>2, <2>3, <2>4, <2>5, <2>6, <2>7, <2>8 DEF PageActs
<1>8. CASE \/ \E i \in Items : OpenDialog(i)
           \/ CloseDialog \/ CloseDeliveries \/ SessionChanges \/ UNCHANGED dashVars
  <2>1. sent' = sent /\ view'.heading \in {Nil, view.heading} /\ view'.raced = view.raced
        /\ view'.deliveries = view.deliveries
    BY <1>1, <1>8 DEF OpenDialog, CloseDialog, CloseDeliveries, SessionChanges, dashVars, Views
  <2>2. QED
    BY <2>1 DEF Headed, Of
<1>9. QED
  BY <1>5, <1>6, <1>7, <1>8 DEF DashNext

-----------------------------------------------------------------------------
(* The approvals shown are those of the filter.                            *)

LEMMA FilteredStep == Types /\ Filtered /\ [DashNext]_dashVars => Filtered'
<1> SUFFICES ASSUME Types, Filtered, [DashNext]_dashVars PROVE Filtered'
  OBVIOUS
<1>1. sent \in [Slots -> Asked] /\ view \in Views /\ \A t \in Slots : sent[t] \in Asked
  BY DEF Types, SentOK, ViewOK
<1>2. ASSUME NEW s \in Slots, NEW r, sent' = [sent EXCEPT ![s] = r],
             view'.page = view.page, view'.filter = view.filter, view'.raced = view.raced,
             view.page = "approvals" =>
                \/ /\ r.kind = "load" /\ r.by /\ r.of = view.filter
                \/ /\ r.kind # "load" \/ ~r.by
                   /\ \/ view'.error
                      \/ /\ view'.list.of = view.list.of /\ view'.error = view.error
                         /\ sent[s].kind # "load"
                      \/ /\ sent[s].kind = "load" /\ sent[s].by
                         /\ view'.list.of = sent[s].of
      PROVE  Filtered'
  BY <1>1, <1>2 DEF Filtered, Of
<1>3. ASSUME NEW s \in Slots, NEW r, SendAs(s, r), r.kind # "load",
             view'.page = view.page, view'.filter = view.filter, view'.raced = view.raced,
             view.page = "approvals" => view'.list = view.list /\ view'.error = view.error
      PROVE  Filtered'
  BY <1>2, <1>3, NoRequestIs DEF SendAs
<1>4. ASSUME view'.page # "approvals" PROVE Filtered'
  BY <1>4 DEF Filtered
<1>5. ASSUME NEW s \in Slots, UserActs(s) PROVE Filtered'
  <2>1. CASE Enter(s) \/ SignOut(s) \/ Start2faSetup(s)
    BY <1>1, <1>3, <2>1 DEF Enter, SignOut, Start2faSetup, Request, Views
  <2>2. CASE Retry(s)
    <3>1. sent' = [sent EXCEPT ![s] = LoadOf(view, FALSE)] /\ view' = Loading(view)
      BY <2>2 DEF Retry, SendAs
    <3>2. view'.page = view.page /\ view'.filter = view.filter /\ view'.raced = view.raced
      BY <1>1, <3>1 DEF Loading, Views
    <3>3. QED
      BY <1>1, <1>2, <3>1, <3>2, LoadIs
  <2>3. ASSUME NEW r, NEW v, Work(s, r, v), v \in Views, view.page \in {"keys", "webhooks", "settings"},
               v.page = view.page
        PROVE  Filtered'
    BY <1>4, <2>3 DEF Work, Views
  <2>4. CASE Remove(s)
    <3>1. Work(s, [Request("remove", view.dialog) EXCEPT !.closes = (view.heading = view.dialog)], view)
      BY <2>4 DEF Remove
    <3>2. view.page \in {"keys", "webhooks", "settings"}
      BY <2>4 DEF Remove, Types, ViewOK, Items
    <3>3. QED
      BY <1>1, <2>3, <3>1, <3>2
  <2>5. ASSUME NEW h \in Hooks, TestWebhook(s, h) \/ RotateSecret(s, h) PROVE Filtered'
    <3>1. view.page = "webhooks"
      BY <2>5 DEF TestWebhook, RotateSecret, At
    <3>2. view'.page = view.page
      BY <1>1, <2>5 DEF TestWebhook, RotateSecret, Work, Views
    <3>3. QED
      BY <1>4, <3>1, <3>2
  <2>6. CASE \E k \in ApiKeys : CreateKey(s, k)
    BY <1>1, <1>4, <2>6 DEF CreateKey, Create, Views
  <2>7. CASE \E h \in Hooks : CreateWebhook(s, h) \/ LoadDeliveries(s, h)
    BY <1>1, <1>4, <2>7 DEF CreateWebhook, Create, LoadDeliveries, At, Views
  <2>8. CASE Confirm2fa(s)
    <3>1. PICK n \in shown : SendAs(s, [Request("enable", "setup") EXCEPT !.number = n])
      BY <2>8 DEF Confirm2fa
    <3>2. view' = [view EXCEPT !.busy = TRUE]
      BY <2>8 DEF Confirm2fa
    <3>3. QED
      BY <1>1, <1>3, <3>1, <3>2 DEF Request, Views
  <2>9. ASSUME NEW p \in PageNames, Mount(s, p) PROVE Filtered'
    <3>1. Mounted(p) \in Views /\ Mounted(p).filter = "all"
      BY MountedType DEF Mounted
    <3>2. LoadOf(Mounted(p), TRUE).kind = "load" /\ LoadOf(Mounted(p), TRUE).by
          /\ LoadOf(Mounted(p), TRUE).of = "all"
      BY <3>1, LoadIs
    <3>3. view'.filter = "all"
      BY <2>9 DEF Mount, Loading, Mounted
    <3>4. \A t \in Slots : ~(Unmounted(t).kind = "load" /\ Unmounted(t).by)
      BY <1>1, OrphanKeeps, NoRequestIs DEF Unmounted
    <3>5. sent'[s].kind = "load" /\ sent'[s].by /\ sent'[s].of = "all"
          /\ \A t \in Slots : t # s => ~(sent'[t].kind = "load" /\ sent'[t].by)
      BY <2>9, <3>2, <3>4 DEF Mount
    <3>6. QED
      BY <3>3, <3>5 DEF Filtered, Of
  <2>10. ASSUME NEW f \in Tabs, ChooseFilter(s, f) PROVE Filtered'
    <3> DEFINE v == Choosing(f)
    <3>1. /\ v = [view EXCEPT !.filter = f, !.raced = Of({"load"}) # Called]
          /\ \E failed \in BOOLEAN :
                view' = [Loading(v) EXCEPT !.loading = (CalledOff = {}), !.error = failed]
          /\ sent' = [t \in Slots |-> IF t = s THEN LoadOf(v, TRUE)
                                       ELSE IF t \in CalledOff THEN NoRequest ELSE sent[t]]
      <4>1. v = [view EXCEPT !.filter = f, !.raced = Of({"load"}) # Called]
        BY DEF Choosing
      <4>2. \E failed \in BOOLEAN :
               view' = [Loading(v) EXCEPT !.loading = (CalledOff = {}), !.error = failed]
        BY <2>10 DEF ChooseFilter, Choosing
      <4>3. sent' = [t \in Slots |-> IF t = s THEN LoadOf(v, TRUE)
                                     ELSE IF t \in CalledOff THEN NoRequest ELSE sent[t]]
        BY <2>10 DEF ChooseFilter, Choosing
      <4>4. QED
        BY <4>1, <4>2, <4>3
    <3> HIDE DEF v
    <3>2. view.page = "approvals" /\ v.page = "approvals" /\ v.filter = f
      BY <1>1, <2>10, <3>1 DEF ChooseFilter, At, Views
    <3>3. LoadOf(v, TRUE).kind = "load" /\ LoadOf(v, TRUE).by /\ LoadOf(v, TRUE).of = f
      BY <3>2 DEF LoadOf, Request
    <3>4. view'.filter = f /\ (~view'.raced => Of({"load"}) = Called)
      BY <1>1, <3>1 DEF Loading, Views
    <3>5. ~view'.raced => \A t \in Slots : t # s => ~(sent'[t].kind = "load" /\ sent'[t].by)
      BY <3>1, <3>4, NoRequestIs DEF Of, CalledOff
    <3>6. QED
      BY <3>1, <3>3, <3>4, <3>5 DEF Filtered, Of
  <2>11. QED
    BY <1>5, <2>1, <2>2, <2>4, <2>5, <2>6, <2>7, <2>8, <2>9, <2>10
    DEF UserActs, Items, PageNames, Tabs
<1>6. ASSUME NEW s \in Slots, Serve(s) PROVE Filtered'
  <2>1. view.page = "approvals" => \A t \in Slots : sent'[t].kind = "load" /\ sent'[t].by =>
            sent[t].kind = "load" /\ sent[t].by /\ sent'[t].of = sent[t].of
    BY <1>6, ServeAnswers, NoRequestIs
  <2>2. \A t \in Slots : sent[t].kind = "load" /\ sent[t].by =>
            sent'[t].kind = "load" /\ sent'[t].by
    BY <1>6, ServeAnswers
  <2>3. view' = view
    BY <1>6, ServeAnswers
  <2>4. QED
    BY <2>1, <2>2, <2>3 DEF Filtered, Of
<1>7. ASSUME NEW s \in Slots, PageActs(s) PROVE Filtered'
  <2>1. NoRequest.kind = Nil
    BY NoRequestIs
  <2>2. CASE CheckSession(s) \/ Generated(s)
    BY <1>1, <1>2, <2>1, <2>2 DEF CheckSession, Generated, Answered, Views
  <2>3. CASE SignedOut(s)
    BY <1>4, <2>3 DEF SignedOut, Mounted
  <2>4. CASE Loaded(s)
    BY <1>1, <1>2, <2>1, <2>4 DEF Loaded, Answered, Handled, Reset, Views
  <2>5. CASE Tested(s) \/ Rotated(s) \/ DeliveriesLoaded(s)
    BY <1>1, <1>2, <2>1, <2>5 DEF Tested, Rotated, DeliveriesLoaded, Answered, Handled, Reset, Views
  <2>6. CASE Created(s) \/ Removed(s) \/ Confirmed(s)
    <3>1. PICK v, w : /\ sent' = [sent EXCEPT ![s] = [LoadOf(v, FALSE) EXCEPT !.then = w]]
                      /\ view' = Loading(v)
                      /\ \/ v = [view EXCEPT !.secret = [of |-> sent[s].of, number |-> sent[s].number]]
                         \/ v = [view EXCEPT !.dialog = Nil, !.heading = IF sent[s].closes THEN Nil ELSE @]
                         \/ v = [view EXCEPT !.dialog = Nil]
      BY <2>6 DEF Created, Removed, Confirmed, Reloads
    <3>2. v.page = view.page /\ v.filter = view.filter
      BY <1>1, <3>1 DEF Views
    <3>3. [LoadOf(v, FALSE) EXCEPT !.then = w].kind = "load" /\ [LoadOf(v, FALSE) EXCEPT !.then = w].by
          /\ (view.page = "approvals" => [LoadOf(v, FALSE) EXCEPT !.then = w].of = view.filter)
      BY <3>2 DEF LoadOf, Request
    <3>4. view'.page = view.page /\ view'.filter = view.filter /\ view'.raced = view.raced
      BY <1>1, <3>1 DEF Loading, Views
    <3>5. QED
      BY <1>2, <3>1, <3>3, <3>4
  <2>7. CASE Fails(s)
    <3>1. PICK r \in {NoRequest, Orphan(sent[s])} : sent' = [sent EXCEPT ![s] = r]
      BY <2>7 DEF Fails
    <3>2. r.kind # "load" \/ ~r.by
      BY <1>1, <2>1, <3>1, OrphanKeeps
    <3>3. view' = Failed(view, sent[s])
      BY <2>7 DEF Fails
    <3>4. /\ view'.page = view.page /\ view'.filter = view.filter /\ view'.raced = view.raced
          /\ view'.list = view.list
          /\ view'.error \/ (view'.error = view.error /\ sent[s].kind # "load")
      BY <1>1, <3>3 DEF Failed, Reset, Views
    <3>5. QED
      BY <1>2, <3>1, <3>2, <3>4
  <2>8. CASE FailsLayout(s)
    BY <1>1, <1>2, <2>8 DEF FailsLayout, Asked
  <2>9. CASE Forgotten(s)
    <3>1. view' = view /\ Of({"load"})' = Of({"load"})
      BY <1>1, <2>1, <2>9 DEF Forgotten, Of
    <3>2. \A t \in Of({"load"}) : sent'[t] = sent[t]
      BY <1>1, <2>9 DEF Forgotten, Of
    <3>3. QED
      BY <3>1, <3>2 DEF Filtered
  <2>10. QED
    BY <1>7, <2>2, <2>3, <2>4, <2>5, <2>6, <2>7, <2>8, <2>9 DEF PageActs
<1>8. CASE \/ \E i \in Items : OpenDialog(i)
           \/ CloseDialog \/ CloseDeliveries \/ SessionChanges \/ UNCHANGED dashVars
  <2>1. /\ sent' = sent /\ view'.page = view.page /\ view'.filter = view.filter
        /\ view'.raced = view.raced /\ view'.list = view.list /\ view'.error = view.error
    BY <1>1, <1>8 DEF OpenDialog, CloseDialog, CloseDeliveries, SessionChanges, dashVars, Views
  <2>2. QED
    BY <2>1 DEF Filtered, Of
<1>9. QED
  BY <1>5, <1>6, <1>7, <1>8 DEF DashNext


-----------------------------------------------------------------------------
(* The secret shown is the newest.  Most steps neither make a secret nor   *)
(* begin or end work on a webhook; they are taken together.                *)

Button == {"rotate", "remove", "test"}

LEMMA KnownKept ==
    ASSUME Types, Known, number' = number, alive' \subseteq alive,
           \A i \in view'.list.items : Made(i),
           view'.secret.of \in Items => Made(view'.secret.of),
           \A t \in Slots :
              \/ /\ sent'[t].kind = sent[t].kind /\ sent'[t].of = sent[t].of
                 /\ sent'[t].answer = sent[t].answer /\ sent'[t].items = sent[t].items
              \/ /\ sent'[t].kind \notin {"create", "rotate"}
                 /\ \A i \in sent'[t].items : Made(i)
    PROVE  Known'
<1>1. ASSUME NEW t \in Slots PROVE Proper(sent[t])'
  BY DEF Known, Proper, Made
<1>2. QED
  BY <1>1 DEF Known, Made

LEMMA CurrentKept ==
    ASSUME Types, Current, number' = number, tangled' = tangled,
           view'.secret = view.secret \/ view'.secret.of \notin Items,
           \/ tangled \/ view'.working = view.working
           \/ \A t \in Slots : sent'[t].kind \notin Button,
           \A t \in Slots :
              \/ sent'[t] = sent[t]
              \/ /\ sent'[t].kind \notin {"create", "rotate"}
                 /\ sent'[t].kind \in Button \/ sent'[t].then = "working" =>
                      /\ t \in AtWork /\ sent[t].kind # "create" /\ sent'[t].by
                      /\ sent'[t].kind \in Button =>
                            sent'[t].of = sent[t].of /\ sent[t].kind \in Button
    PROVE  Current'
<1> SUFFICES ASSUME ~tangled PROVE Current'
  BY DEF Current
<1>1. /\ \A s \in AtWork : sent[s].by
      /\ \A s, t \in AtWork : sent[s].kind # "create" /\ sent[t].kind # "create" => s = t
      /\ \A s \in AtWork : sent[s].kind \in Button => view.working = sent[s].of
  BY DEF Current, Button
<1>2. /\ \A s, t \in Slots : sent[s].kind = "create" /\ sent[t].kind = "rotate" =>
            sent[s].of # sent[t].of
      /\ \A s \in Slots : sent[s].kind \in {"create", "rotate"} /\ sent[s].answer # "none" =>
            sent[s].number = number[sent[s].of]
      /\ \A s \in Slots : sent[s].kind = "rotate" => view.secret.of # sent[s].of
      /\ view.secret.of \in Items => view.secret.number = number[view.secret.of]
  BY DEF Current
<1>3. \A s \in AtWork' : s \in AtWork /\ s \in Slots
  BY DEF AtWork, Button
<1>4. \A s \in AtWork' : sent'[s].by
  BY <1>1, <1>3 DEF AtWork, Button
<1>5. \A s \in AtWork' : sent'[s].kind # "create" => sent[s].kind # "create"
  BY <1>3 DEF AtWork, Button
<1>6. \A s, t \in AtWork' : sent'[s].kind # "create" /\ sent'[t].kind # "create" => s = t
  BY <1>1, <1>3, <1>5
<1>7. \A s \in AtWork' : sent'[s].kind \in Button =>
          sent[s].kind \in Button /\ sent'[s].of = sent[s].of
  BY <1>3 DEF AtWork
<1>8. \A s \in AtWork' : sent'[s].kind \in Button => view'.working = sent'[s].of
  BY <1>1, <1>3, <1>7
<1>9. \A s \in Slots : sent'[s].kind \in {"create", "rotate"} => sent'[s] = sent[s]
  OBVIOUS
<1>10. \A s \in Slots : sent'[s].kind = "rotate" => sent[s].of \in Items
  BY <1>9 DEF Types, SentOK, Fits
<1>11. QED
  BY <1>2, <1>4, <1>6, <1>8, <1>9, <1>10 DEF Current, Button

(* The page is left while work is under way, or nothing of it remains.     *)
LEMMA LeavingKeeps ==
    ASSUME Types, Known, Current, number' = number, alive' = alive,
           tangled' = (tangled \/ AtWork # {}),
           view'.secret = NoSecret, view'.list = NoList,
           \A t \in Slots : \/ /\ sent'[t].kind = "load" /\ sent'[t].then = Nil
                               /\ sent'[t].items = {}
                            \/ sent'[t] = NoRequest \/ sent'[t] = Unmounted(t)
    PROVE  Known' /\ Current'
<1>1. \A t \in Slots :
         \/ /\ sent'[t].kind = sent[t].kind /\ sent'[t].of = sent[t].of
            /\ sent'[t].answer = sent[t].answer /\ sent'[t].items = sent[t].items
            /\ sent'[t].then = sent[t].then /\ sent[t].kind \in Changes \cup {"logout"}
         \/ /\ sent'[t].kind \notin Button \cup {"create"} /\ sent'[t].then = Nil
            /\ sent'[t].items = {}
  <2>1. \A t \in Slots : sent[t] \in Asked
    BY DEF Types, SentOK
  <2>2. QED
    BY <2>1, OrphanKeeps, NoRequestIs DEF Unmounted, Button
<1>2. Nil \notin Items
  BY DEF Items
<1>3. Known'
  BY <1>1, <1>2, KnownKept DEF Button
<1>4. CASE tangled \/ AtWork # {}
  BY <1>3, <1>4 DEF Current
<1>5. CASE ~tangled /\ AtWork = {}
  <2>1. \A t \in Slots : sent[t].kind \notin Button \cup {"create"} /\ sent[t].then # "working"
    BY <1>5 DEF AtWork, Button
  <2>2. \A t \in Slots : sent'[t].kind \notin Button \cup {"create"} /\ sent'[t].then # "working"
    BY <1>1, <2>1
  <2>3. tangled' = tangled
    BY <1>5 DEF Types
  <2>4. QED
    BY <1>2, <1>3, <2>2, <2>3, CurrentKept DEF Button
<1>6. QED
  BY <1>4, <1>5

(* Work on a row of the list begins.                                       *)
LEMMA WorkBegins ==
    ASSUME Types, Known, Current, NEW s \in Slots, NEW k \in Button, NEW i \in Items, NEW r,
           r.kind = k /\ r.of = i /\ r.items = {} /\ r.by /\ r.then = Nil /\ r.answer = "none",
           NEW v \in {view, [view EXCEPT !.secret = NoSecret]},
           k = "rotate" => Made(i) /\ v = [view EXCEPT !.secret = NoSecret],
           view.working # i, Work(s, r, v)
    PROVE  Known' /\ Current'
<1>1. sent \in [Slots -> Asked] /\ view \in Views /\ (\A t \in Slots : Fits(sent[t]))
      /\ tangled \in BOOLEAN
  BY DEF Types, SentOK, ViewOK
<1>2. /\ sent' = [sent EXCEPT ![s] = r] /\ number' = number /\ alive' = alive
      /\ tangled' = (tangled \/ Tangles(i))
  BY DEF Work, SendAs, Quiet, server
<1>3. /\ view'.working = i /\ view'.list = view.list
      /\ view'.secret = view.secret \/ view'.secret = NoSecret
      /\ k = "rotate" => view'.secret = NoSecret
  BY <1>1 DEF Work, Views
<1>4. Nil \notin Items
  BY DEF Items
<1>5. \A t \in Slots : t # s => sent'[t] = sent[t]
  BY <1>1, <1>2
<1>6. sent'[s] = r
  BY <1>1, <1>2
<1>7. Known'
  <2>1. ASSUME NEW t \in Slots PROVE Proper(sent[t])'
    BY <1>2, <1>5, <1>6 DEF Known, Proper, Made, Button
  <2>2. QED
    BY <1>2, <1>3, <1>4, <1>5, <1>6, <2>1 DEF Known, Made, Button
<1>8. Current'
  <2> SUFFICES ASSUME ~tangled, ~Tangles(i) PROVE Current'
    BY <1>2 DEF Current
  <2>1. AtWork = {}
    <3>1. \A t \in AtWork : sent[t].of = i /\ sent[t].kind # "create"
      BY DEF Tangles
    <3>2. \A t \in AtWork : sent[t].kind \notin Button
      BY <3>1 DEF Current, Button
    <3>3. \A t \in AtWork : sent[t].kind # "load"
      BY <1>1, <3>1 DEF AtWork, Fits
    <3>4. \A t \in AtWork : sent[t].then = Nil
      BY <1>1, <3>3 DEF AtWork, Fits
    <3>5. QED
      BY <3>1, <3>2, <3>4 DEF AtWork, Button
  <2>2. \A t \in Slots : sent[t].kind \notin Button \cup {"create"} /\ sent[t].then # "working"
    BY <2>1 DEF AtWork, Button
  <2>3. \A t \in Slots : sent'[t].kind \in Button \cup {"create"} \/ sent'[t].then = "working"
                            => t = s
    BY <1>5, <2>2
  <2>4. view'.secret.of \in Items => view'.secret.number = number[view'.secret.of]
    BY <1>3, <1>4 DEF Current
  <2>5. k = "rotate" => view'.secret.of # i
    BY <1>3, <1>4
  <2>6. AtWork' \subseteq {s}
    BY <2>3 DEF AtWork, Button
  <2>7. QED
    BY <1>2, <1>3, <1>6, <2>3, <2>4, <2>5, <2>6 DEF Current, Button
<1>9. QED
  BY <1>7, <1>8


LEMMA CreateKeeps ==
    ASSUME Types, Known, Current, NEW s \in Slots, NEW i \in Items, Create(s, i)
    PROVE  Known' /\ Current'
<1>1. sent \in [Slots -> Asked] /\ view \in Views /\ \A t \in Slots : Fits(sent[t])
  BY DEF Types, SentOK, ViewOK
<1> DEFINE r == Request("create", i)
<1>2. /\ sent' = [sent EXCEPT ![s] = r] /\ number' = number /\ alive' = alive
      /\ tangled' = tangled /\ ~Made(i) /\ \A t \in Slots : sent[t].of # i
  BY DEF Create, SendAs, Quiet, server, Made, Types, ServerOK
<1>3. view'.working = view.working /\ view'.list = view.list /\ view'.secret = NoSecret
  BY <1>1 DEF Create, Views
<1>4. r.kind = "create" /\ r.of = i /\ r.items = {} /\ r.by /\ r.then = Nil /\ r.answer = "none"
  BY DEF Request
<1>5. Nil \notin Items
  BY DEF Items
<1> HIDE DEF r
<1>6. sent'[s] = r /\ \A t \in Slots : t # s => sent'[t] = sent[t]
  BY <1>1, <1>2
<1>7. Known'
  <2>1. ASSUME NEW t \in Slots PROVE Proper(sent[t])'
    BY <1>2, <1>4, <1>6 DEF Known, Proper, Made
  <2>2. QED
    BY <1>2, <1>3, <1>4, <1>5, <1>6, <2>1 DEF Known, Made
<1>8. Current'
  <2> SUFFICES ASSUME ~tangled PROVE Current'
    BY <1>2 DEF Current
  <2>1. \A t \in AtWork' : t = s \/ t \in AtWork
    BY <1>6 DEF AtWork
  <2>2. \A t \in Slots : sent'[t].kind = "rotate" => sent[t] = sent'[t] /\ sent[t].of \in Items
    BY <1>1, <1>4, <1>6 DEF Fits
  <2>3. QED
    BY <1>2, <1>3, <1>4, <1>5, <1>6, <2>1, <2>2 DEF Current
<1>9. QED
  BY <1>7, <1>8

LEMMA ServedCreateKeeps ==
    ASSUME Types, Known, Current, NEW s \in Slots, ServeCreate(s)
    PROVE  Known' /\ Current'
<1>1. /\ sent \in [Slots -> Asked] /\ \A t \in Slots : Fits(sent[t])
      /\ alive \subseteq Items /\ number \in [Items -> Nat]
  BY DEF Types, SentOK, ServerOK
<1> DEFINE i == sent[s].of
<1>2. /\ sent[s].kind = "create" /\ sent[s].answer = "none" /\ i \in Items /\ ~Made(i)
      /\ view' = view /\ tangled' = tangled
      /\ number' = [number EXCEPT ![i] = 1] /\ alive' = alive \cup {i}
  BY <1>1 DEF ServeCreate, Answers, Known, Proper, Fits
<1>3. \A t \in Slots : t # s => sent'[t] = sent[t]
  BY <1>1 DEF ServeCreate, Answers
<1>4. /\ sent[s].by => /\ sent'[s].kind = "create" /\ sent'[s].of = i /\ sent'[s].number = 1
                       /\ sent'[s].answer = "ok" /\ sent'[s].by
                       /\ sent'[s].items = sent[s].items
      /\ ~sent[s].by => sent'[s] = NoRequest
  BY <1>1, <1>2 DEF ServeCreate, Answers, Asked
<1> HIDE DEF i
<1>5. /\ \A j \in Items : number'[j] > 0 <=> (number[j] > 0 \/ j = i)
      /\ \A j \in Items : j # i => number'[j] = number[j]
      /\ number'[i] = 1
  BY <1>1, <1>2 DEF Made
<1>6. Known'
  <2>1. ASSUME NEW t \in Slots, t # s PROVE Proper(sent[t])'
    <3>1. sent[t].kind = "create" => sent[t].of # i /\ sent[t].of \in Items
      BY <1>1, <1>2, <2>1 DEF Known, Fits, i
    <3>2. sent[t].kind = "rotate" => sent[t].of \in Items
      BY <1>1 DEF Fits
    <3>3. sent[t].items \subseteq Items
      BY <1>1 DEF Asked
    <3>4. QED
      BY <1>3, <1>5, <2>1, <3>1, <3>2, <3>3 DEF Known, Proper, Made
  <2>2. Proper(sent[s])'
    <3>1. sent[s].items \subseteq Items
      BY <1>1 DEF Asked
    <3>2. number'[i] > 0 /\ \A j \in sent[s].items : number'[j] > 0
      BY <1>2, <1>5, <3>1 DEF Known, Proper, Made
    <3>3. CASE sent[s].by
      BY <1>4, <3>2, <3>3 DEF Proper, Made
    <3>4. CASE ~sent[s].by
      BY <1>4, <3>4, NoRequestIs DEF Proper
    <3>5. QED
      BY <3>3, <3>4
  <2>3. \A t \in Slots : sent'[t].kind = "create" =>
            sent[t].kind = "create" /\ sent'[t].of = sent[t].of
    BY <1>2, <1>3, <1>4, NoRequestIs DEF i
  <2>4. \A t, u \in Slots : sent'[t].kind = "create" /\ sent'[u].kind = "create"
                              /\ sent'[t].of = sent'[u].of => t = u
    BY <2>3 DEF Known
  <2>5. /\ \A j \in alive' : number'[j] > 0
        /\ \A j \in view'.list.items : number'[j] > 0
        /\ view'.secret.of \in Items => number'[view'.secret.of] > 0
    <3>1. view.list.items \subseteq Items
      BY DEF Types, ViewOK, Views, Lists
    <3>2. QED
      BY <1>1, <1>2, <1>5, <3>1 DEF Known, Made
  <2>6. QED
    BY <2>1, <2>2, <2>4, <2>5 DEF Known, Made
<1>7. Current'
  <2> SUFFICES ASSUME ~tangled PROVE Current'
    BY <1>2 DEF Current
  <2>1. sent[s].by
    BY <1>2 DEF Current, AtWork
  <2>2. \A t \in Slots : sent'[t].kind = sent[t].kind /\ sent'[t].of = sent[t].of
    BY <1>2, <1>3, <1>4, <2>1 DEF i
  <2>3. \A t \in AtWork' : t = s \/ t \in AtWork
    BY <1>3 DEF AtWork
  <2>4. \A t \in Slots : t # s /\ sent[t].kind \in {"create", "rotate"} =>
            sent[t].of # i /\ sent[t].of \in Items
    BY <1>1, <1>2 DEF Known, Proper, Fits, i
  <2>5. view.secret.of \in Items => view.secret.of # i
    BY <1>2 DEF Known
  <2>6. QED
    BY <1>2, <1>3, <1>4, <1>5, <2>1, <2>2, <2>3, <2>4, <2>5 DEF Current, AtWork
<1>8. QED
  BY <1>6, <1>7

LEMMA ServedRotateKeeps ==
    ASSUME Types, Known, Current, NEW s \in Slots, ServeRotate(s)
    PROVE  Known' /\ Current'
<1>1. /\ sent \in [Slots -> Asked] /\ (\A t \in Slots : Fits(sent[t]))
      /\ alive \subseteq Items /\ number \in [Items -> Nat]
  BY DEF Types, SentOK, ServerOK
<1> DEFINE i == sent[s].of
<1>2. /\ sent[s].kind = "rotate" /\ sent[s].answer = "none" /\ i \in Items /\ Made(i)
      /\ view' = view /\ tangled' = tangled
      /\ number' = [number EXCEPT ![i] = @ + 1] /\ alive' = alive
  BY <1>1 DEF ServeRotate, Answers, Known, Proper, Fits
<1>3. \A t \in Slots : t # s => sent'[t] = sent[t]
  BY <1>1 DEF ServeRotate, Answers
<1>4. number[i] + 1 \in Nat /\ number'[i] = number[i] + 1
  BY <1>1, <1>2
<1>5. /\ sent[s].by => /\ sent'[s].kind = "rotate" /\ sent'[s].of = i /\ sent'[s].by
                       /\ sent'[s].number = number[i] + 1 /\ sent'[s].items = sent[s].items
                       /\ sent'[s].answer = "ok"
      /\ ~sent[s].by => sent'[s] = NoRequest
  BY <1>1, <1>2, <1>4 DEF ServeRotate, Answers, Asked
<1> HIDE DEF i
<1>6. /\ \A j \in Items : number'[j] > 0 <=> number[j] > 0
      /\ \A j \in Items : j # i => number'[j] = number[j]
  BY <1>1, <1>2, <1>4 DEF Made
<1>7. Known'
  <2>1. ASSUME NEW t \in Slots, t # s PROVE Proper(sent[t])'
    <3>1. sent[t].kind \in {"create", "rotate"} => sent[t].of \in Items
      BY <1>1 DEF Fits
    <3>2. sent[t].items \subseteq Items
      BY <1>1 DEF Asked
    <3>3. QED
      BY <1>3, <1>6, <2>1, <3>1, <3>2 DEF Known, Proper, Made
  <2>2. Proper(sent[s])'
    <3>1. sent[s].items \subseteq Items
      BY <1>1 DEF Asked
    <3>2. number'[i] > 0 /\ \A j \in sent[s].items : number'[j] > 0
      BY <1>2, <1>6, <3>1 DEF Known, Proper, Made
    <3>3. CASE sent[s].by
      BY <1>5, <3>2, <3>3 DEF Proper, Made
    <3>4. CASE ~sent[s].by
      BY <1>5, <3>4, NoRequestIs DEF Proper
    <3>5. QED
      BY <3>3, <3>4
  <2>3. \A t \in Slots : sent'[t].kind = "create" => sent'[t] = sent[t]
    BY <1>3, <1>5, NoRequestIs
  <2>4. /\ \A j \in alive' : number'[j] > 0
        /\ \A j \in view'.list.items : number'[j] > 0
        /\ view'.secret.of \in Items => number'[view'.secret.of] > 0
    <3>1. view.list.items \subseteq Items
      BY DEF Types, ViewOK, Views, Lists
    <3>2. QED
      BY <1>1, <1>2, <1>6, <3>1 DEF Known, Made
  <2>5. QED
    BY <2>1, <2>2, <2>3, <2>4 DEF Known, Made
<1>8. Current'
  <2> SUFFICES ASSUME ~tangled PROVE Current'
    BY <1>2 DEF Current
  <2>1. sent[s].by /\ s \in AtWork
    BY <1>2 DEF Current, AtWork
  <2>2. \A t \in Slots : sent'[t].kind = sent[t].kind /\ sent'[t].of = sent[t].of
    BY <1>2, <1>3, <1>5, <2>1 DEF i
  <2>3. \A t \in AtWork' : t \in Slots /\ (t = s \/ t \in AtWork)
    BY <1>3 DEF AtWork
  <2>4. \A t \in Slots : t # s /\ sent[t].kind \in {"create", "rotate"} =>
            sent[t].of # i /\ sent[t].of \in Items
    BY <1>1, <1>2, <2>1 DEF Current, AtWork, Fits, i
  <2>5. view.secret.of # i
    BY <1>2 DEF Current, i
  <2>6. \A t \in Slots : sent'[t].kind \in {"create", "rotate"} /\ sent'[t].answer # "none" =>
            sent'[t].number = number'[sent'[t].of]
    BY <1>3, <1>4, <1>5, <1>6, <2>1, <2>4 DEF Current
  <2>7. \A t \in AtWork' : sent'[t].by
    BY <1>3, <1>5, <2>1, <2>3 DEF Current
  <2>8. QED
    BY <1>2, <1>6, <2>1, <2>2, <2>3, <2>5, <2>6, <2>7 DEF Current
<1>9. QED
  BY <1>7, <1>8


LEMMA CreatedKeeps ==
    ASSUME Types, Known, Current, NEW s \in Slots, Created(s)
    PROVE  Known' /\ Current'
<1>1. sent \in [Slots -> Asked] /\ view \in Views /\ sent[s] \in Asked /\ \A t \in Slots : Fits(sent[t])
  BY DEF Types, SentOK, ViewOK
<1> DEFINE v == [view EXCEPT !.secret = [of |-> sent[s].of, number |-> sent[s].number]]
<1>2. /\ sent[s].kind = "create" /\ sent[s].by /\ sent[s].answer = "ok" /\ sent[s].of \in Items
      /\ sent' = [sent EXCEPT ![s] = [LoadOf(v, FALSE) EXCEPT !.then = "busy"]]
      /\ view' = Loading(v) /\ number' = number /\ alive' = alive /\ tangled' = tangled
  BY <1>1 DEF Created, Answered, Reloads, Quiet, server, Fits
<1>3. /\ [LoadOf(v, FALSE) EXCEPT !.then = "busy"].kind = "load"
      /\ [LoadOf(v, FALSE) EXCEPT !.then = "busy"].items = {}
      /\ [LoadOf(v, FALSE) EXCEPT !.then = "busy"].then = "busy"
  BY DEF LoadOf, Request
<1>4. /\ view'.list = view.list /\ view'.working = view.working
      /\ view'.secret = [of |-> sent[s].of, number |-> sent[s].number]
  BY <1>1, <1>2 DEF Loading, Views
<1> HIDE DEF v
<1>5. /\ sent'[s].kind = "load" /\ sent'[s].items = {} /\ sent'[s].then = "busy"
      /\ \A t \in Slots : t # s => sent'[t] = sent[t]
  BY <1>1, <1>2, <1>3
<1>6. Made(sent[s].of)
  BY <1>2 DEF Known, Proper
<1>7. Known'
  <2>1. \A i \in view'.list.items : Made(i)
    BY <1>4 DEF Known
  <2>2. Made(view'.secret.of)
    BY <1>4, <1>6
  <2>3. QED
    BY <1>2, <1>5, <2>1, <2>2, KnownKept
<1>8. Current'
  <2> SUFFICES ASSUME ~tangled PROVE Current'
    BY <1>2 DEF Current
  <2>1. sent[s].number = number[sent[s].of]
    BY <1>2 DEF Current
  <2>2. \A t \in Slots : sent'[t].kind = "rotate" => sent[t].of # sent[s].of
    BY <1>2, <1>5 DEF Current
  <2>3. \A t \in AtWork' : t \in AtWork /\ sent'[t] = sent[t]
    BY <1>5 DEF AtWork
  <2>4. /\ \A t \in AtWork' : sent'[t].by
        /\ \A t, u \in AtWork' : sent'[t].kind # "create" /\ sent'[u].kind # "create" => t = u
        /\ \A t \in AtWork' : sent'[t].kind \in {"rotate", "remove", "test"} =>
              view'.working = sent'[t].of
    BY <1>4, <2>3 DEF Current
  <2>5. \A t, u \in Slots : sent'[t].kind = "create" /\ sent'[u].kind = "rotate" =>
            sent'[t].of # sent'[u].of
    BY <1>5 DEF Current
  <2>6. \A t \in Slots : sent'[t].kind \in {"create", "rotate"} /\ sent'[t].answer # "none" =>
            sent'[t].number = number'[sent'[t].of]
    <3>1. \A t \in Slots : sent'[t].kind \in {"create", "rotate"} => sent'[t] = sent[t]
      BY <1>5
    <3>2. \A t \in Slots : sent[t].kind \in {"create", "rotate"} /\ sent[t].answer # "none" =>
              sent[t].number = number[sent[t].of]
      BY DEF Current
    <3>3. QED
      BY <1>2, <3>1, <3>2
  <2>7. \A t \in Slots : sent'[t].kind = "rotate" => view'.secret.of # sent'[t].of
    BY <1>4, <1>5, <2>2
  <2>8. view'.secret.number = number'[view'.secret.of]
    BY <1>2, <1>4, <2>1
  <2>9. QED
    BY <2>4, <2>5, <2>6, <2>7, <2>8 DEF Current
<1>9. QED
  BY <1>7, <1>8

LEMMA RotatedKeeps ==
    ASSUME Types, Known, Current, NEW s \in Slots, Rotated(s)
    PROVE  Known' /\ Current'
<1>1. sent \in [Slots -> Asked] /\ view \in Views /\ sent[s] \in Asked /\ \A t \in Slots : Fits(sent[t])
  BY DEF Types, SentOK, ViewOK
<1>2. /\ sent[s].kind = "rotate" /\ sent[s].by /\ sent[s].answer = "ok" /\ sent[s].of \in Items
      /\ sent' = [sent EXCEPT ![s] = NoRequest]
      /\ number' = number /\ alive' = alive /\ tangled' = tangled
      /\ view' = [Reset(view, "working") EXCEPT
                     !.secret = [of |-> sent[s].of, number |-> sent[s].number]]
  BY <1>1 DEF Rotated, Answered, Handled, Quiet, server, Fits
<1>3. /\ view'.list = view.list /\ view'.working = Nil
      /\ view'.secret = [of |-> sent[s].of, number |-> sent[s].number]
  BY <1>1, <1>2 DEF Reset, Views
<1>4. sent'[s] = NoRequest /\ \A t \in Slots : t # s => sent'[t] = sent[t]
  BY <1>1, <1>2
<1>5. Made(sent[s].of)
  BY <1>2 DEF Known, Proper
<1>6. Known'
  <2>1. \A i \in view'.list.items : Made(i)
    BY <1>3 DEF Known
  <2>2. Made(view'.secret.of)
    BY <1>3, <1>5
  <2>3. QED
    BY <1>2, <1>4, <2>1, <2>2, KnownKept, NoRequestIs
<1>7. Current'
  <2> SUFFICES ASSUME ~tangled PROVE Current'
    BY <1>2 DEF Current
  <2>1. sent[s].number = number[sent[s].of] /\ s \in AtWork
    BY <1>2 DEF Current, AtWork
  <2>2. AtWork' \subseteq AtWork \ {s}
    BY <1>4, NoRequestIs DEF AtWork
  <2>3. \A t \in AtWork \ {s} : sent[t].kind = "create"
    BY <1>2, <2>1 DEF Current
  <2>4. \A t \in AtWork' : t # s /\ sent'[t] = sent[t] /\ sent[t].kind = "create" /\ sent[t].by
    BY <1>4, <2>2, <2>3 DEF Current, AtWork
  <2>5. \A t \in Slots : sent'[t].kind # "rotate"
    <3>1. \A t \in Slots : sent'[t].kind = "rotate" => t \in AtWork'
      BY DEF AtWork
    <3>2. QED
      BY <2>4, <3>1
  <2>6. \A t \in Slots : sent'[t].kind = "create" => t # s
    BY <1>4, NoRequestIs
  <2>7. QED
    BY <1>2, <1>3, <1>4, <2>1, <2>4, <2>5, <2>6 DEF Current
<1>8. QED
  BY <1>6, <1>7

(* Work has ended when the button it disabled is free again.               *)
LEMMA AloneAtWork ==
    ASSUME Current, ~tangled, NEW s \in AtWork, sent[s].kind # "create"
    PROVE  \A t \in Slots : t # s => sent[t].kind \notin Button
BY DEF Current, AtWork, Button

(* Steps that make no secret and begin no work.                            *)
LEMMA SteadyKeeps ==
    ASSUME Types, Known, Current, NEW s \in Slots, NEW r, sent' = [sent EXCEPT ![s] = r],
           number' = number, alive' \subseteq alive, tangled' = tangled,
           \A i \in view'.list.items : Made(i),
           view'.secret = view.secret \/ view'.secret.of \notin Items,
           \/ view'.working = view.working
           \/ sent[s].kind # "create" /\ s \in AtWork /\ r.kind \notin Button,
           r.kind \notin {"create", "rotate"}, \A i \in r.items : Made(i),
           r.kind \in Button \/ r.then = "working" =>
              /\ s \in AtWork /\ sent[s].kind # "create" /\ r.by
              /\ r.kind \in Button => r.of = sent[s].of /\ sent[s].kind \in Button
    PROVE  Known' /\ Current'
<1>1. sent'[s] = r /\ \A t \in Slots : t # s => sent'[t] = sent[t]
  BY DEF Types, SentOK
<1>2. Known'
  BY <1>1, KnownKept DEF Known
<1>3. \/ tangled \/ view'.working = view.working
      \/ \A t \in Slots : sent'[t].kind \notin Button
  BY <1>1, AloneAtWork DEF Types
<1>4. Current'
  BY <1>1, <1>3, CurrentKept
<1>5. QED
  BY <1>2, <1>4


LEMMA SecretsStep == Types /\ Known /\ Current /\ [DashNext]_dashVars => Known' /\ Current'
<1> SUFFICES ASSUME Types, Known, Current, [DashNext]_dashVars PROVE Known' /\ Current'
  OBVIOUS
<1>1. /\ sent \in [Slots -> Asked] /\ view \in Views /\ (\A t \in Slots : Fits(sent[t]))
      /\ (\A t \in Slots : sent[t] \in Asked) /\ tangled \in BOOLEAN
  BY DEF Types, SentOK, ViewOK
<1>2. Nil \notin Items /\ "setup" \notin Items
  BY DEF Items
<1>3. \A i \in view.list.items \cup alive : Made(i)
  BY DEF Known
<1>4. \A t \in Slots : \A i \in sent[t].items : Made(i)
  BY DEF Known, Proper
<1>5. ASSUME NEW s \in Slots, UserActs(s) PROVE Known' /\ Current'
  <2>1. ASSUME NEW r, SendAs(s, r), number' = number, alive' = alive, tangled' = tangled,
               view'.list = view.list, view'.working = view.working,
               view'.secret = view.secret \/ view'.secret.of \notin Items,
               r.kind \notin Button \cup {"create"}, r.then = Nil, r.items = {}
        PROVE  Known' /\ Current'
    BY <1>3, <2>1, SteadyKeeps DEF SendAs, Button
  <2>2. CASE Enter(s) \/ SignOut(s)
    BY <2>1, <2>2 DEF Enter, SignOut, server, Request, Button
  <2>11. CASE Start2faSetup(s)
    BY <1>1, <1>2, <2>1, <2>11 DEF Start2faSetup, Quiet, server, Request, Views, Button
  <2>12. ASSUME NEW h \in Hooks, LoadDeliveries(s, h) PROVE Known' /\ Current'
    <3>1. /\ view'.list = view.list /\ view'.working = view.working
          /\ view'.secret = view.secret
      BY <1>1, <2>12 DEF LoadDeliveries, Views
    <3>2. QED
      BY <2>1, <2>12, <3>1 DEF LoadDeliveries, Quiet, server, Request, Button
  <2>3. CASE Retry(s)
    BY <1>1, <2>1, <2>3, LoadIs DEF Retry, Loading, Views, Quiet, server, Button
  <2>4. CASE Confirm2fa(s)
    <3>1. PICK n \in shown : SendAs(s, [Request("enable", "setup") EXCEPT !.number = n])
      BY <2>4 DEF Confirm2fa
    <3>2. view' = [view EXCEPT !.busy = TRUE] /\ Quiet /\ tangled' = tangled
      BY <2>4 DEF Confirm2fa
    <3>3. QED
      BY <1>1, <2>1, <3>1, <3>2 DEF Request, Views, Quiet, server, Button
  <2>5. CASE Remove(s)
    <3> DEFINE r == [Request("remove", view.dialog) EXCEPT !.closes = (view.heading = view.dialog)]
    <3>1. Work(s, r, view) /\ view.dialog \in Items /\ view.working = Nil
      BY <2>5 DEF Remove
    <3>2. /\ r.kind = "remove" /\ r.of = view.dialog /\ r.items = {} /\ r.by /\ r.then = Nil
          /\ r.answer = "none"
      BY DEF Request
    <3> HIDE DEF r
    <3>3. QED
      BY <1>2, <3>1, <3>2, WorkBegins DEF Button
  <2>6. ASSUME NEW h \in Hooks, TestWebhook(s, h) PROVE Known' /\ Current'
    <3>1. Work(s, Request("test", h), view) /\ view.working # h
      BY <2>6 DEF TestWebhook, NotWorkedOn
    <3>2. QED
      BY <3>1, WorkBegins DEF Request, Button, Items
  <2>7. ASSUME NEW h \in Hooks, RotateSecret(s, h) PROVE Known' /\ Current'
    <3>1. Work(s, Request("rotate", h), [view EXCEPT !.secret = NoSecret]) /\ view.working # h
      BY <2>7 DEF RotateSecret, NotWorkedOn
    <3>2. Made(h)
      BY <1>3, <2>7 DEF RotateSecret, Listed
    <3>3. QED
      BY <3>1, <3>2, WorkBegins DEF Request, Button, Items
  <2>8. ASSUME NEW i \in Items, Create(s, i) PROVE Known' /\ Current'
    BY <2>8, CreateKeeps
  <2>9. ASSUME NEW p \in PageNames, Mount(s, p) PROVE Known' /\ Current'
    <3>1. Mounted(p) \in Views
      BY MountedType
    <3>2. LoadOf(Mounted(p), TRUE).kind = "load" /\ LoadOf(Mounted(p), TRUE).then = Nil
          /\ LoadOf(Mounted(p), TRUE).items = {}
      BY <3>1, LoadIs
    <3>3. view'.secret = NoSecret /\ view'.list = NoList
      BY <2>9 DEF Mount, Loading, Mounted
    <3>4. QED
      BY <2>9, <3>2, <3>3, LeavingKeeps DEF Mount, Quiet, server
  <2>10. ASSUME NEW f \in Tabs, ChooseFilter(s, f) PROVE Known' /\ Current'
    <3> DEFINE v == Choosing(f)
    <3>1. /\ v = [view EXCEPT !.filter = f, !.raced = Of({"load"}) # Called]
          /\ \E failed \in BOOLEAN :
                view' = [Loading(v) EXCEPT !.loading = (CalledOff = {}), !.error = failed]
          /\ sent' = [t \in Slots |-> IF t = s THEN LoadOf(v, TRUE)
                                       ELSE IF t \in CalledOff THEN NoRequest ELSE sent[t]]
      <4>1. v = [view EXCEPT !.filter = f, !.raced = Of({"load"}) # Called]
        BY DEF Choosing
      <4>2. \E failed \in BOOLEAN :
               view' = [Loading(v) EXCEPT !.loading = (CalledOff = {}), !.error = failed]
        BY <2>10 DEF ChooseFilter, Choosing
      <4>3. sent' = [t \in Slots |-> IF t = s THEN LoadOf(v, TRUE)
                                     ELSE IF t \in CalledOff THEN NoRequest ELSE sent[t]]
        BY <2>10 DEF ChooseFilter, Choosing
      <4>4. QED
        BY <4>1, <4>2, <4>3
    <3> HIDE DEF v
    <3>2. LoadOf(v, TRUE).kind = "load" /\ LoadOf(v, TRUE).then = Nil /\ LoadOf(v, TRUE).items = {}
      BY DEF LoadOf, Request
    <3>3. view'.list = view.list /\ view'.working = view.working /\ view'.secret = view.secret
      BY <1>1, <3>1 DEF Loading, Views
    <3>4. number' = number /\ alive' = alive /\ tangled' = tangled
      BY <2>10 DEF ChooseFilter, Quiet, server
    <3>5. \A t \in Slots :
             \/ sent'[t] = sent[t]
             \/ /\ sent'[t].kind \notin Button \cup {"create"} /\ sent'[t].then = Nil
                /\ sent'[t].items = {}
      BY <3>1, <3>2, NoRequestIs DEF Button
    <3>6. Known'
      BY <1>3, <3>3, <3>4, <3>5, KnownKept DEF Known, Button
    <3>7. Current'
      BY <3>3, <3>4, <3>5, CurrentKept DEF Button
    <3>8. QED
      BY <3>6, <3>7
  <2>13. QED
    BY <1>5, <2>2, <2>3, <2>4, <2>5, <2>6, <2>7, <2>8, <2>9, <2>10, <2>11, <2>12
    DEF UserActs, CreateKey, CreateWebhook, Items, PageNames, Tabs
<1>6. ASSUME NEW s \in Slots, Serve(s) PROVE Known' /\ Current'
  <2>1. CASE ServeCreate(s)
    BY <2>1, ServedCreateKeeps
  <2>2. CASE ServeRotate(s)
    BY <2>2, ServedRotateKeeps
  <2>3. ASSUME NEW r, Answers(s, r), r \in Asked, r.kind = sent[s].kind, r.then = sent[s].then,
               r.by = sent[s].by, \A i \in r.items : Made(i),
               r.kind \in Button \/ r.then = "working" => r = sent[s] \/ r.kind \notin Button,
               r.kind \notin {"create", "rotate"}, number' = number, alive' \subseteq alive
        PROVE  Known' /\ Current'
    <3>1. view' = view /\ tangled' = tangled
      BY <2>3 DEF Answers
    <3>2. CASE ~r.by
      <4>1. sent' = [sent EXCEPT ![s] = NoRequest]
        BY <2>3, <3>2 DEF Answers
      <4>2. QED
        BY <1>3, <2>3, <3>1, <4>1, NoRequestIs, SteadyKeeps DEF Button
    <3>3. CASE r.by
      <4> DEFINE q == [r EXCEPT !.answer = "ok"]
      <4>1. sent' = [sent EXCEPT ![s] = q]
        BY <2>3, <3>3 DEF Answers
      <4>2. /\ q.kind = r.kind /\ q.of = r.of /\ q.items = r.items /\ q.then = r.then
            /\ q.by
        BY <2>3, <3>3 DEF Asked
      <4> HIDE DEF q
      <4>3. r.kind \in Button \/ r.then = "working" => s \in AtWork
        BY <2>3 DEF AtWork, Button
      <4>4. QED
        BY <1>3, <2>3, <3>1, <4>1, <4>2, <4>3, SteadyKeeps DEF Button
    <3>4. QED
      BY <3>2, <3>3
  <2>4. CASE ServeSession(s) \/ ServeLogout(s) \/ ServeRead(s) \/ ServeRemove(s) \/ ServeEnable(s)
    BY <1>1, <1>4, <2>3, <2>4
    DEF ServeSession, ServeLogout, ServeRead, ServeRemove, ServeEnable, server
  <2>5. CASE ServeGenerate(s)
    <3> DEFINE r == [sent[s] EXCEPT !.number = factor.made + 1]
    <3>1. /\ r \in Asked /\ r.kind = sent[s].kind /\ r.then = sent[s].then
          /\ r.by = sent[s].by /\ r.items = sent[s].items
      BY <1>1 DEF Asked, Types, ServerOK
    <3>2. Answers(s, r) /\ sent[s].kind = "generate" /\ number' = number /\ alive' = alive
      BY <2>5 DEF ServeGenerate
    <3> HIDE DEF r
    <3>3. QED
      BY <1>1, <1>4, <2>3, <3>1, <3>2 DEF Button
  <2>6. CASE ServeLoad(s)
    <3>1. PICK r \in {[sent[s] EXCEPT !.of = "off"], [sent[s] EXCEPT !.of = "on"],
                      [sent[s] EXCEPT !.items = Rows(view.page)]} : Answers(s, r)
      BY <2>6 DEF ServeLoad
    <3>2. sent[s].kind = "load" /\ number' = number /\ alive' = alive
      BY <2>6 DEF ServeLoad, server
    <3>3. /\ r \in Asked /\ r.kind = sent[s].kind /\ r.then = sent[s].then
          /\ r.by = sent[s].by /\ (r.items = sent[s].items \/ r.items \subseteq alive)
      <4>1. Rows(view.page) \subseteq alive /\ Rows(view.page) \subseteq Items
        BY RowsAreAlive DEF Types, ServerOK
      <4>2. QED
        BY <1>1, <3>1, <4>1 DEF Asked, Things
    <3>4. \A i \in r.items : Made(i)
      BY <1>3, <1>4, <3>3
    <3>5. QED
      BY <2>3, <3>1, <3>2, <3>3, <3>4 DEF Button
  <2>7. QED
    BY <1>6, <2>1, <2>2, <2>4, <2>5, <2>6 DEF Serve
<1>7. ASSUME NEW s \in Slots, PageActs(s) PROVE Known' /\ Current'
  <2>1. ASSUME sent' = [sent EXCEPT ![s] = NoRequest],
               number' = number, alive' = alive, tangled' = tangled,
               \A i \in view'.list.items : Made(i),
               view'.secret = view.secret \/ view'.secret.of \notin Items,
               view'.working = view.working \/ (sent[s].kind # "create" /\ s \in AtWork)
        PROVE  Known' /\ Current'
    BY <2>1, NoRequestIs, SteadyKeeps DEF Button
  <2>2. CASE CheckSession(s) \/ Forgotten(s) \/ Generated(s)
    BY <1>1, <1>2, <1>3, <2>1, <2>2 DEF CheckSession, Forgotten, Generated, server, Views
  <2>3. CASE SignedOut(s)
    <3>1. view'.secret = NoSecret /\ view'.list = NoList
      BY <2>3 DEF SignedOut, Mounted
    <3>2. QED
      BY <2>3, <3>1, LeavingKeeps DEF SignedOut, server
  <2>4. CASE Loaded(s)
    <3> DEFINE v == [view EXCEPT !.list = [of |-> sent[s].of, items |-> sent[s].items],
                                 !.loading = FALSE]
    <3>1. /\ v \in Views /\ v.list.items = sent[s].items /\ v.secret = view.secret
          /\ v.working = view.working
      BY <1>1 DEF Views, Lists, Asked
    <3>2. /\ sent' = [sent EXCEPT ![s] = NoRequest] /\ view' = Reset(v, sent[s].then)
          /\ number' = number /\ alive' = alive /\ tangled' = tangled /\ sent[s].kind = "load"
      BY <2>4 DEF Loaded, Handled, Quiet, server, Answered
    <3> HIDE DEF v
    <3>3. /\ view'.list = v.list /\ view'.secret = v.secret
          /\ view'.working = v.working \/ sent[s].then = "working"
      BY <3>1, <3>2 DEF Reset, Views
    <3>4. QED
      BY <1>4, <2>1, <3>1, <3>2, <3>3 DEF AtWork
  <2>5. CASE Tested(s)
    BY <1>1, <1>3, <2>1, <2>5 DEF Tested, Answered, Handled, Reset, Views, AtWork, Quiet, server
  <2>6. CASE DeliveriesLoaded(s)
    BY <1>1, <1>3, <2>1, <2>6 DEF DeliveriesLoaded, Handled, Views, Quiet, server
  <2>7. CASE Rotated(s)
    BY <2>7, RotatedKeeps
  <2>8. CASE Created(s)
    BY <2>8, CreatedKeeps
  <2>9. ASSUME NEW v, NEW w \in {"busy", "working"}, Reloads(s, v, w), v \in Views,
               v.list = view.list, v.secret = view.secret, v.working = view.working,
               w = "working" => sent[s].kind = "remove"
        PROVE  Known' /\ Current'
    <3> DEFINE r == [LoadOf(v, FALSE) EXCEPT !.then = w]
    <3>1. r.kind = "load" /\ r.by /\ r.items = {} /\ r.then = w
      BY DEF LoadOf, Request
    <3>2. /\ sent' = [sent EXCEPT ![s] = r] /\ view' = Loading(v)
          /\ number' = number /\ alive' = alive /\ tangled' = tangled
      BY <2>9 DEF Reloads, Quiet, server
    <3> HIDE DEF r
    <3>3. view'.list = view.list /\ view'.secret = view.secret /\ view'.working = view.working
      BY <2>9, <3>2 DEF Loading, Views
    <3>4. w = "working" => s \in AtWork /\ sent[s].kind # "create"
      BY <2>9 DEF AtWork
    <3>5. QED
      BY <1>3, <3>1, <3>2, <3>3, <3>4, SteadyKeeps DEF Button
  <2>10. CASE Removed(s)
    <3> DEFINE v == [view EXCEPT !.dialog = Nil, !.heading = IF sent[s].closes THEN Nil ELSE @]
    <3>1. v \in Views /\ v.list = view.list /\ v.secret = view.secret /\ v.working = view.working
      BY <1>1 DEF Views, Asked
    <3>2. Reloads(s, v, "working") /\ sent[s].kind = "remove"
      BY <2>10 DEF Removed, Answered
    <3> HIDE DEF v
    <3>3. QED
      BY <2>9, <3>1, <3>2
  <2>11. CASE Confirmed(s)
    <3> DEFINE v == [view EXCEPT !.dialog = Nil]
    <3>1. v \in Views /\ v.list = view.list /\ v.secret = view.secret /\ v.working = view.working
      BY <1>1 DEF Views, Asked
    <3>2. Reloads(s, v, "busy")
      BY <2>11 DEF Confirmed
    <3> HIDE DEF v
    <3>3. QED
      BY <2>9, <3>1, <3>2
  <2>12. CASE Fails(s)
    <3>1. PICK r \in {NoRequest, Orphan(sent[s])} :
              sent' = [sent EXCEPT ![s] = r] /\ tangled' = (tangled \/ r # NoRequest)
      BY <2>12 DEF Fails
    <3>2. view' = Failed(view, sent[s]) /\ number' = number /\ alive' = alive
      BY <2>12 DEF Fails, Quiet, server
    <3>3. /\ view'.list = view.list /\ view'.secret = view.secret
          /\ \/ view'.working = view.working
             \/ sent[s].kind \in Button \/ (sent[s].kind = "load" /\ sent[s].then = "working")
      BY <1>1, <3>2 DEF Failed, Reset, Views, Button
    <3>4. CASE r = NoRequest
      <4>1. tangled' = tangled
        BY <1>1, <3>1, <3>4
      <4>2. sent[s].kind \in Button \/ (sent[s].kind = "load" /\ sent[s].then = "working")
            => s \in AtWork /\ sent[s].kind # "create"
        BY DEF AtWork, Button
      <4>3. QED
        BY <1>3, <2>1, <3>1, <3>2, <3>3, <3>4, <4>1, <4>2
    <3>5. CASE r # NoRequest
      <4>1. Current'
        BY <3>1, <3>5 DEF Current
      <4>2. \A t \in Slots :
               /\ sent'[t].kind = sent[t].kind /\ sent'[t].of = sent[t].of
               /\ sent'[t].answer = sent[t].answer /\ sent'[t].items = sent[t].items
        BY <1>1, <3>1, <3>5, OrphanKeeps
      <4>3. Known'
        BY <1>3, <3>2, <3>3, <4>2, KnownKept DEF Known
      <4>4. QED
        BY <4>1, <4>3
    <3>6. QED
      BY <3>4, <3>5
  <2>13. CASE FailsLayout(s)
    <3> DEFINE r == [sent[s] EXCEPT !.answer = "failed"]
    <3>1. r.kind = sent[s].kind /\ r.then = sent[s].then /\ r.items = sent[s].items
      BY <1>1 DEF Asked
    <3>2. /\ sent' = [sent EXCEPT ![s] = r] /\ view' = view /\ tangled' = tangled
          /\ number' = number /\ alive' = alive /\ sent[s].kind \in {"session", "logout"}
      BY <1>1, <2>13 DEF FailsLayout, server, Asked
    <3> HIDE DEF r
    <3>3. sent[s].then = Nil
      BY <1>1, <3>2 DEF Fits
    <3>4. QED
      BY <1>3, <1>4, <3>1, <3>2, <3>3, SteadyKeeps DEF Button
  <2>14. QED
    BY <1>7, <2>2, <2>3, <2>4, <2>5, <2>6, <2>7, <2>8, <2>10, <2>11, <2>12, <2>13 DEF PageActs
<1>8. CASE \/ \E i \in Items : OpenDialog(i)
           \/ CloseDialog \/ CloseDeliveries \/ SessionChanges \/ UNCHANGED dashVars
  <2>1. /\ sent' = sent /\ number' = number /\ alive' = alive /\ tangled' = tangled
        /\ view'.list = view.list /\ view'.secret = view.secret /\ view'.working = view.working
    BY <1>1, <1>8 DEF OpenDialog, CloseDialog, CloseDeliveries, SessionChanges, dashVars, Quiet,
      server, Views
  <2>2. Known'
    BY <2>1, KnownKept DEF Known
  <2>3. Current'
    BY <2>1, CurrentKept
  <2>4. QED
    BY <2>2, <2>3
<1>9. QED
  BY <1>5, <1>6, <1>7, <1>8 DEF DashNext

-----------------------------------------------------------------------------
(* The theorems.                                                           *)

LEMMA InitPages == DashInit => PagesInv
<1> SUFFICES ASSUME DashInit PROVE PagesInv
  OBVIOUS
<1>1. \A s \in Slots : /\ sent[s].kind = Nil /\ sent[s].then = Nil /\ sent[s].items = {}
                       /\ sent[s].answer = "none"
  BY NoRequestIs DEF DashInit
<1>2. /\ ~view.loading /\ ~view.fetching /\ ~view.busy /\ view.working = Nil
      /\ view.heading = Nil /\ view.page = Nil /\ view.list.items = {}
      /\ view.secret.of = Nil /\ factor.enabled = 0
  BY DEF DashInit, Mounted
<1>3. Nil \notin Items
  BY DEF Items
<1>4. \A i \in alive : number[i] > 0
  BY DEF DashInit
<1>5. ShownFirst /\ Ends /\ Headed /\ Filtered
  BY <1>1, <1>2 DEF ShownFirst, Ends, NeverStuck, Headed, Filtered
<1>6. Known
  BY <1>1, <1>2, <1>3, <1>4 DEF Known, Proper, Made
<1>7. AtWork = {}
  BY <1>1 DEF AtWork
<1>8. Current
  BY <1>1, <1>2, <1>3, <1>7 DEF Current
<1>9. QED
  BY <1>5, <1>6, <1>8 DEF PagesInv

LEMMA PagesInvSound == Types /\ PagesInv => PagesSound
<1> SUFFICES ASSUME Types, PagesInv PROVE PagesSound
  OBVIOUS
<1>1. FilterShown
  BY DEF PagesInv, Filtered, FilterShown
<1>2. DeliveriesShown
  BY DEF PagesInv, Headed, DeliveriesShown
<1>3. SecretShown
  BY DEF PagesInv, Current, SecretShown, Types, ServerOK
<1>4. NeverStuck /\ NotLockedOut
  BY DEF PagesInv, Ends, ShownFirst, NotLockedOut
<1>5. QED
  BY <1>1, <1>2, <1>3, <1>4 DEF PagesSound

(* The state of the tab keeps its types: every request in flight asks what *)
(* its kind can ask, a dialog is open on the pages that have one, and only *)
(* the webhooks page shows deliveries.                                     *)
THEOREM DashboardTypeCorrect == DashSpec => []Types
<1>1. DashSpec => DashInit /\ [][DashNext]_dashVars
  BY DEF DashSpec
<1>2. QED
  BY <1>1, InitTypes, TypesStep, PTL

(* The pages are sound whatever the user clicks while requests are under   *)
(* way and in whatever order they are answered, fail or are lost.          *)
THEOREM PagesCorrect == DashSpec => []PagesSound
<1>1. Types /\ PagesInv /\ [DashNext]_dashVars => PagesInv'
  BY ShownStep, EndsStep, HeadedStep, FilteredStep, SecretsStep DEF PagesInv
<1>2. DashSpec => DashInit /\ [][DashNext]_dashVars
  BY DEF DashSpec
<1>3. DashSpec => []Types
  BY DashboardTypeCorrect
<1>4. QED
  BY <1>1, <1>2, <1>3, InitPages, PagesInvSound, PTL
=============================================================================
