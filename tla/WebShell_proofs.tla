--------------------------- MODULE WebShell_proofs ---------------------------
(***************************************************************************)
(* Proofs about one tab of the web client, for any number of users,         *)
(* dealerships and things to tell of, whatever comes late and in any order. *)
(***************************************************************************)
EXTENDS WebShell, FiniteSetTheorems, TLAPS

Row == [id : Entity, at : Nat]

Note == [id : Entity, at : Nat, read : BOOLEAN]

\* What a page has asked for.
Ask == [user : User \cup {NULL}, of : Dealership, filter : Filter \cup {NULL}]

PageType ==
  [on : BOOLEAN, filter : Filter \cup {NULL}, sel : Dealership \cup {NULL},
   loads : Seq(Ask), shown : Ask \cup {NULL}]

CallType ==
  [kind : {"dashboard", "gone", "me", "bell", "messages", "login", "first", "accept",
           "import", "adrift"},
   user : User \cup {NULL}, d : Dealership \cup {NULL}, of : Dealership \cup {NULL}]

\* A bell is asked for under the dealership it is for.
CallOK(c) ==
  /\ c \in CallType
  /\ c.kind \in {"login", "accept", "first"} => c.user \in User
  /\ c.kind = "bell" => c.d \in Dealership /\ c.of = c.d
  /\ c.kind = "messages" => c.d \in Dealership
  /\ c.kind \in {"import", "adrift"} => c.of \in Dealership

TabFields == {"token", "active", "path", "selected", "me", "bell", "page", "notes", "calls"}

Typed(t) ==
  /\ DOMAIN t = TabFields
  /\ t.token \in User \cup {NULL} /\ t.me \in User \cup {NULL}
  /\ t.active \in Dealership \cup {NULL} /\ t.selected \in Dealership \cup {NULL}
  /\ t.page \in PageType
  /\ t.notes \in [Dealership -> SUBSET Note]
  /\ \A c \in BagToSet(t.calls) : CallOK(c)

\* The select shows nothing, or what the requests are sent for.
Linked(t) == t.selected # NULL => t.selected = t.active

\* Unless sessions have met, the dealership is one of the user's.
Belongs(t, mx) ==
  ~mx /\ t.active # NULL => t.token # NULL /\ t.active \in Mine(t.token)

\* What a page shows or will show.
Asks(t) == ToSet(t.page.loads) \cup ({t.page.shown} \ {NULL})

Fresh(t, mx) ==
  \A a \in Asks(t) : /\ t.selected \in {NULL, a.of}
                     /\ mx \/ (a.user = t.token /\ t.token # NULL)

OffAtLogin(t) == t.path = "login" => Asks(t) = {}

\* Who waits for an answer to a page is on that page.
OfPage(c, path) ==
  (c.kind = "dashboard" => path = "dashboard") /\ (c.kind = "import" => path = "integrations")

Attended(t) == \A c \in BagToSet(t.calls) : OfPage(c, t.path)

PageOK(t, mx) == Fresh(t, mx) /\ OffAtLogin(t) /\ Attended(t)

TabOK(t, mx) == Typed(t) /\ Linked(t) /\ Belongs(t, mx) /\ PageOK(t, mx)

\* What a handler may leave to React: a page that is thrown away need not be right.
Ready(old, t, mx) ==
  Typed(t) /\ Linked(t) /\ Belongs(t, mx) /\ (Key(t) = Key(old) => PageOK(t, mx))

Keeps(t, u, changed) == \A f \in TabFields \ changed : u[f] = t[f]

-----------------------------------------------------------------------------
LEMMA BagFacts ==
  ASSUME NEW b, NEW c
  PROVE  /\ BagToSet(b (+) SetToBag({c})) = BagToSet(b) \cup {c}
         /\ BagToSet(b (-) SetToBag({c})) \subseteq BagToSet(b)
         /\ BagToSet(EmptyBag) = {}
<1>1. BagToSet(b (+) SetToBag({c})) = BagToSet(b) \cup {c}
  BY DEF BagToSet, SetToBag, (+)
<1>2. BagToSet(b (-) SetToBag({c})) \subseteq BagToSet(b)
  BY DEF BagToSet, SetToBag, (-)
<1>3. BagToSet(EmptyBag) = {}
  BY DEF BagToSet, EmptyBag, SetToBag
<1> QED
  BY <1>1, <1>2, <1>3

LEMMA SendFacts ==
  ASSUME NEW t, Typed(t), NEW c, CallOK(c)
  PROVE  /\ Typed(Send(t, c)) /\ Keeps(t, Send(t, c), {"calls"})
         /\ BagToSet(Send(t, c).calls) = BagToSet(t.calls) \cup {c}
<1> DEFINE u == Send(t, c)
<1>1. DOMAIN u = TabFields /\ Keeps(t, u, {"calls"}) /\ u.calls = t.calls (+) SetToBag({c})
  BY DEF Send, Typed, TabFields, Keeps
<1> HIDE DEF u
<1>2. BagToSet(u.calls) = BagToSet(t.calls) \cup {c}
  <2>1. u.calls = t.calls (+) SetToBag({c})
    BY <1>1
  <2>2. BagToSet(t.calls (+) SetToBag({c})) = BagToSet(t.calls) \cup {c}
    BY BagFacts, Zenon
  <2> QED
    BY <2>1, <2>2, Zenon
<1>3. Typed(u)
  BY <1>1, <1>2 DEF Typed, Keeps, TabFields
<1> QED
  BY <1>1, <1>2, <1>3 DEF u

LEMMA DoneFacts ==
  ASSUME NEW t, Typed(t), NEW c
  PROVE  /\ Typed(Done(t, c)) /\ Keeps(t, Done(t, c), {"calls"})
         /\ BagToSet(Done(t, c).calls) \subseteq BagToSet(t.calls)
<1> DEFINE u == Done(t, c)
<1>1. DOMAIN u = TabFields /\ Keeps(t, u, {"calls"}) /\ u.calls = t.calls (-) SetToBag({c})
  BY DEF Done, Typed, TabFields, Keeps
<1> HIDE DEF u
<1>2. BagToSet(u.calls) \subseteq BagToSet(t.calls)
  <2>1. u.calls = t.calls (-) SetToBag({c})
    BY <1>1
  <2>2. BagToSet(t.calls (-) SetToBag({c})) \subseteq BagToSet(t.calls)
    BY BagFacts, Zenon
  <2> QED
    BY <2>1, <2>2
<1>3. Typed(u)
  BY <1>1, <1>2 DEF Typed, Keeps, TabFields
<1> QED
  BY <1>1, <1>2, <1>3 DEF u

LEMMA NoPageFacts ==
  /\ NoPage \in PageType /\ [NoPage EXCEPT !.on = TRUE] \in PageType
  /\ NoPage.loads = <<>> /\ NoPage.shown = NULL
  /\ [NoPage EXCEPT !.on = TRUE].loads = <<>> /\ [NoPage EXCEPT !.on = TRUE].shown = NULL
  /\ ToSet(<<>>) = {}
<1>1. NoPage.loads = <<>> /\ NoPage.shown = NULL /\ NoPage \in PageType
  BY DEF NoPage, PageType
<1>2. /\ [NoPage EXCEPT !.on = TRUE] \in PageType
      /\ [NoPage EXCEPT !.on = TRUE].loads = NoPage.loads
      /\ [NoPage EXCEPT !.on = TRUE].shown = NoPage.shown
  BY <1>1 DEF PageType
<1>3. ToSet(<<>>) = {}
  BY DEF ToSet
<1> QED
  BY <1>1, <1>2, <1>3

\* Who leaves a page forgets what it has asked for; its calls go on.
LEMMA LeaveFacts ==
  ASSUME NEW t, Typed(t)
  PROVE  /\ Typed(Leave(t)) /\ Keeps(t, Leave(t), {"calls", "page"})
         /\ Asks(Leave(t)) = {}
         /\ \A c \in BagToSet(Leave(t).calls) : \A p : OfPage(c, p)
<1> DEFINE u == Leave(t)
<1>1. /\ DOMAIN u = TabFields /\ Keeps(t, u, {"calls", "page"}) /\ u.page = NoPage
      /\ u.calls = BagOfAll(Retired, t.calls)
  BY DEF Leave, Typed, TabFields, Keeps
<1>2. BagToSet(u.calls) = {Retired(c) : c \in BagToSet(t.calls)}
  BY <1>1 DEF BagToSet, BagOfAll
<1> HIDE DEF u
<1>3. ASSUME NEW c \in BagToSet(t.calls)
      PROVE  CallOK(Retired(c)) /\ Retired(c).kind \notin {"dashboard", "import"}
  <2>1. CallOK(c)
    BY DEF Typed
  <2>2. CASE c.kind \notin {"dashboard", "import"}
    BY <2>1, <2>2 DEF Retired
  <2>3. CASE c.kind = "dashboard"
    <3>1. /\ [c EXCEPT !.kind = "gone"] \in CallType
          /\ [c EXCEPT !.kind = "gone"].kind = "gone"
      BY <2>1 DEF CallOK, CallType
    <3> QED
      BY <3>1, <2>3 DEF Retired, CallOK
  <2>4. CASE c.kind = "import"
    <3>1. /\ [c EXCEPT !.kind = "adrift"] \in CallType
          /\ [c EXCEPT !.kind = "adrift"].kind = "adrift"
          /\ [c EXCEPT !.kind = "adrift"].of = c.of /\ c.of \in Dealership
      BY <2>1, <2>4 DEF CallOK, CallType
    <3>2. Retired(c) = [c EXCEPT !.kind = "adrift"]
      BY <2>4 DEF Retired
    <3> QED
      BY <3>1, <3>2 DEF CallOK
  <2> QED
    BY <2>2, <2>3, <2>4
<1>4. \A c \in BagToSet(u.calls) : CallOK(c) /\ \A p : OfPage(c, p)
  BY <1>2, <1>3 DEF OfPage
<1>5. Asks(u) = {}
  BY <1>1, NoPageFacts DEF Asks
<1>6. Typed(u)
  BY <1>1, <1>4, NoPageFacts DEF Typed, Keeps, TabFields
<1> QED
  BY <1>1, <1>4, <1>5, <1>6 DEF u

LEMMA AppendAsk ==
  ASSUME NEW s \in Seq(Ask), NEW a \in Ask
  PROVE  Append(s, a) \in Seq(Ask) /\ ToSet(Append(s, a)) = ToSet(s) \cup {a}
<1> DEFINE t == Append(s, a)
<1>1. /\ t \in Seq(Ask) /\ Len(t) = Len(s) + 1 /\ t[Len(s) + 1] = a
      /\ \A i \in 1 .. Len(s) : t[i] = s[i]
  OBVIOUS
<1>2. DOMAIN s = 1 .. Len(s) /\ DOMAIN t = 1 .. Len(t) /\ Len(s) \in Nat
  BY <1>1
<1> HIDE DEF t
<1>3. DOMAIN t = DOMAIN s \cup {Len(s) + 1}
  BY <1>1, <1>2
<1>4. {t[i] : i \in DOMAIN t} = {s[i] : i \in DOMAIN s} \cup {a}
  BY <1>1, <1>2, <1>3
<1> QED
  BY <1>1, <1>4 DEF ToSet, t

\* A page asks for the dealership of its request, in the name of its token.
LEMMA LoadFacts ==
  ASSUME NEW t, Typed(t)
  PROVE  /\ Typed(Load(t)) /\ Keeps(t, Load(t), {"page"})
         /\ \A a \in Asks(Load(t)) : \/ a \in Asks(t)
                                     \/ t.active # NULL /\ a.user = t.token /\ a.of = t.active
<1> DEFINE u == Load(t)
           ask == [user |-> t.token, of |-> t.active, filter |-> t.page.filter]
<1>1. t.page \in PageType /\ DOMAIN t = TabFields /\ \A c \in BagToSet(t.calls) : CallOK(c)
  BY DEF Typed
<1>2. CASE t.active = NULL
  <2> DEFINE p == [t.page EXCEPT !.shown = NULL]
  <2>1. u = [t EXCEPT !.page = p]
    BY <1>2 DEF Load
  <2>2. p \in PageType /\ p.loads = t.page.loads /\ p.shown = NULL
    BY <1>1 DEF PageType
  <2> HIDE DEF p, u
  <2>3. DOMAIN u = TabFields /\ Keeps(t, u, {"page"}) /\ u.page = p
    BY <2>1, <1>1 DEF TabFields, Keeps
  <2>4. Typed(u)
    BY <2>2, <2>3 DEF Typed, Keeps, TabFields
  <2>5. Asks(u) \subseteq Asks(t)
    BY <2>2, <2>3 DEF Asks
  <2> QED
    BY <2>3, <2>4, <2>5 DEF u
<1>3. CASE t.active # NULL
  <2> DEFINE p == [t.page EXCEPT !.loads = Append(t.page.loads, ask)]
  <2>1. u = [t EXCEPT !.page = p]
    BY <1>3 DEF Load
  <2>2. ask \in Ask /\ ask.user = t.token /\ ask.of = t.active
    <3>1. t.token \in User \cup {NULL} /\ t.active \in Dealership /\ t.page.filter \in Filter \cup {NULL}
      BY <1>1, <1>3 DEF Typed, PageType
    <3> QED
      BY <3>1 DEF Ask
  <2> HIDE DEF ask
  <2>3. t.page.loads \in Seq(Ask)
    BY <1>1 DEF PageType
  <2>4. /\ Append(t.page.loads, ask) \in Seq(Ask)
        /\ ToSet(Append(t.page.loads, ask)) = ToSet(t.page.loads) \cup {ask}
    BY <2>2, <2>3, AppendAsk
  <2>5. p \in PageType /\ p.loads = Append(t.page.loads, ask) /\ p.shown = t.page.shown
    BY <1>1, <2>4 DEF PageType
  <2> HIDE DEF p, u
  <2>6. DOMAIN u = TabFields /\ Keeps(t, u, {"page"}) /\ u.page = p
    BY <2>1, <1>1 DEF TabFields, Keeps
  <2>7. Typed(u)
    BY <2>5, <2>6 DEF Typed, Keeps, TabFields
  <2>8. Asks(u) = Asks(t) \cup {ask}
    BY <2>4, <2>5, <2>6 DEF Asks
  <2> QED
    BY <2>2, <2>6, <2>7, <2>8, <1>3 DEF u
<1> QED
  BY <1>2, <1>3

LEMMA CallFacts ==
  ASSUME NEW u \in User \cup {NULL}
  PROVE  /\ CallOK(Call("dashboard", u, NULL, NULL)) /\ CallOK(Call("me", u, NULL, NULL))
         /\ \A d \in Dealership : CallOK(Call("bell", u, d, d))
         /\ \A d \in Dealership, of \in Dealership \cup {NULL} : CallOK(Call("messages", u, d, of))
         /\ \A of \in Dealership : CallOK(Call("import", u, NULL, of))
         /\ u \in User => /\ CallOK(Call("login", u, NULL, NULL))
                          /\ CallOK(Call("first", u, NULL, NULL))
                          /\ CallOK(Call("accept", u, NULL, NULL))
BY DEF CallOK, CallType, Call

\* A page that is mounted asks for the dealership of the select.
LEMMA MountFacts ==
  ASSUME NEW t, Typed(t), Linked(t), NEW mx, Belongs(t, mx),
         \A c \in BagToSet(t.calls) : \A p : OfPage(c, p)
  PROVE  /\ Typed(Mount(t)) /\ Keeps(t, Mount(t), {"calls", "page"}) /\ PageOK(Mount(t), mx)
<1> DEFINE v == [t EXCEPT !.page = [NoPage EXCEPT !.on = TRUE]]
           u == Mount(t)
<1>1. DOMAIN v = TabFields /\ Keeps(t, v, {"page"}) /\ v.page = [NoPage EXCEPT !.on = TRUE]
  BY DEF Typed, TabFields, Keeps
<1>2. Typed(v)
  BY <1>1, NoPageFacts DEF Typed, Keeps, TabFields
<1>3. Asks(v) = {}
  BY <1>1, NoPageFacts DEF Asks
<1>4. /\ v.path = t.path /\ v.token = t.token /\ v.active = t.active /\ v.calls = t.calls
      /\ v.selected = t.selected
  BY <1>1 DEF Keeps, TabFields
<1>5. CASE t.path = "dashboard"
  <2> DEFINE c == Call("dashboard", t.token, NULL, NULL)
  <2>1. u = Send(v, c)
    BY <1>5 DEF Mount
  <2>2. CallOK(c) /\ OfPage(c, "dashboard")
    BY CallFacts DEF Typed, Call, OfPage
  <2> HIDE DEF v, u, c
  <2>3. Typed(u) /\ Keeps(v, u, {"calls"}) /\ BagToSet(u.calls) = BagToSet(v.calls) \cup {c}
    BY <2>1, <2>2, <1>2, SendFacts
  <2>4. Keeps(t, u, {"calls", "page"}) /\ Asks(u) = {} /\ u.path = "dashboard"
    BY <2>3, <1>1, <1>3, <1>4, <1>5 DEF Keeps, TabFields, Asks
  <2>5. PageOK(u, mx)
    BY <2>2, <2>3, <2>4, <1>4 DEF PageOK, Fresh, OffAtLogin, Attended
  <2> QED
    BY <2>3, <2>4, <2>5, <1>5 DEF u
<1>6. CASE t.path \in {"leads", "integrations"}
  <2>1. u = Load(v)
    BY <1>6 DEF Mount
  <2> HIDE DEF v, u
  <2>2. /\ Typed(u) /\ Keeps(v, u, {"page"})
        /\ \A a \in Asks(u) : v.active # NULL /\ a.user = v.token /\ a.of = v.active
    BY <2>1, <1>2, <1>3, LoadFacts
  <2>3. /\ Keeps(t, u, {"calls", "page"}) /\ u.path = t.path /\ u.calls = t.calls
        /\ u.token = t.token /\ u.selected = t.selected
    BY <2>2, <1>1, <1>4 DEF Keeps, TabFields
  <2>4. Fresh(u, mx)
    BY <2>2, <2>3, <1>4 DEF Fresh, Linked, Belongs
  <2>5. PageOK(u, mx)
    BY <2>3, <2>4, <1>6 DEF PageOK, OffAtLogin, Attended
  <2> QED
    BY <2>2, <2>3, <2>5 DEF u
<1>7. CASE t.path \notin {"dashboard", "leads", "integrations"}
  <2>1. u = v
    BY <1>7 DEF Mount
  <2> HIDE DEF v, u
  <2>2. Keeps(t, u, {"calls", "page"}) /\ PageOK(u, mx)
    BY <2>1, <1>1, <1>3, <1>4 DEF Keeps, PageOK, Fresh, OffAtLogin, Attended
  <2> QED
    BY <2>1, <2>2, <1>2, <1>4 DEF u
<1> QED
  BY <1>5, <1>6, <1>7

\* TabOK does not depend on the calls that are sent for no page.
LEMMA SendOK ==
  ASSUME NEW t, NEW mx, TabOK(t, mx), NEW c, CallOK(c), OfPage(c, t.path)
  PROVE  /\ TabOK(Send(t, c), mx) /\ Keeps(t, Send(t, c), {"calls"})
         /\ Asks(Send(t, c)) = Asks(t)
         /\ BagToSet(Send(t, c).calls) = BagToSet(t.calls) \cup {c}
<1> DEFINE u == Send(t, c)
<1>1. Typed(u) /\ Keeps(t, u, {"calls"}) /\ BagToSet(u.calls) = BagToSet(t.calls) \cup {c}
  BY SendFacts DEF TabOK
<1> HIDE DEF u
<1>2. /\ u.page = t.page /\ u.path = t.path /\ u.token = t.token /\ u.active = t.active
      /\ u.selected = t.selected
  BY <1>1 DEF Keeps, TabFields
<1>3. Asks(u) = Asks(t)
  BY <1>2 DEF Asks
<1>4. Linked(u) /\ Belongs(u, mx) /\ Fresh(u, mx) /\ OffAtLogin(u)
  BY <1>2, <1>3 DEF TabOK, PageOK, Linked, Belongs, Fresh, OffAtLogin
<1>5. Attended(u)
  BY <1>1, <1>2 DEF TabOK, PageOK, Attended
<1> QED
  BY <1>1, <1>3, <1>4, <1>5 DEF TabOK, PageOK, u

\* React makes right what a handler has left to it, and sets the bell when
\* another dealership is selected.
LEMMA RenderFacts ==
  ASSUME NEW old, NEW t, NEW mx, Ready(old, t, mx)
  PROVE  /\ TabOK(Render(old, t), mx)
         /\ Keeps(t, Render(old, t), {"calls", "page", "bell"})
         /\ Render(old, t).bell = IF t.selected # old.selected /\ t.selected # NULL
                                  THEN t.notes[t.selected] ELSE t.bell
<1> DEFINE left == IF Key(t) = Key(old) THEN t ELSE Leave(t)
           page == IF Key(t) # Key(old) /\ Key(t).allowed THEN Mount(left) ELSE left
           callMe == Call("me", t.token, NULL, NULL)
           me == IF t.path # old.path /\ t.path # "login" THEN Send(page, callMe) ELSE page
           u == Render(old, t)
<1>1. Typed(t) /\ Linked(t) /\ Belongs(t, mx)
  BY DEF Ready
<1>2. TabOK(page, mx) /\ Keeps(t, page, {"calls", "page"})
  <2>1. CASE Key(t) = Key(old)
    BY <2>1 DEF Ready, TabOK, Keeps
  <2>2. CASE Key(t) # Key(old)
    <3>1. left = Leave(t)
      BY <2>2
    <3> HIDE DEF left
    <3>2. /\ Typed(left) /\ Keeps(t, left, {"calls", "page"}) /\ Asks(left) = {}
          /\ \A c \in BagToSet(left.calls) : \A q : OfPage(c, q)
      BY <3>1, <1>1, LeaveFacts
    <3>3. /\ left.path = t.path /\ left.token = t.token /\ left.active = t.active
          /\ left.selected = t.selected
      BY <3>2 DEF Keeps, TabFields
    <3>4. Linked(left) /\ Belongs(left, mx)
      BY <3>3, <1>1 DEF Linked, Belongs
    <3>5. CASE Key(t).allowed
      <4>1. page = Mount(left)
        BY <2>2, <3>5
      <4> HIDE DEF page
      <4>2. Typed(page) /\ Keeps(left, page, {"calls", "page"}) /\ PageOK(page, mx)
        BY <4>1, <3>2, <3>4, MountFacts
      <4>3. /\ Keeps(t, page, {"calls", "page"}) /\ page.token = left.token
            /\ page.active = left.active /\ page.selected = left.selected
        BY <4>2, <3>2 DEF Keeps, TabFields
      <4>4. Linked(page) /\ Belongs(page, mx)
        BY <4>3, <3>4 DEF Linked, Belongs
      <4> QED
        BY <4>2, <4>3, <4>4 DEF TabOK
    <3>6. CASE ~Key(t).allowed
      <4>1. page = left
        BY <3>6
      <4>2. PageOK(left, mx)
        BY <3>2 DEF PageOK, Fresh, OffAtLogin, Attended
      <4> HIDE DEF page
      <4> QED
        BY <4>1, <4>2, <3>2, <3>4 DEF TabOK
    <3> QED
      BY <3>5, <3>6
  <2> QED
    BY <2>1, <2>2
<1> HIDE DEF page
<1>3. TabOK(me, mx) /\ Keeps(t, me, {"calls", "page"})
  <2>1. CallOK(callMe) /\ \A q : OfPage(callMe, q)
    BY <1>1, CallFacts DEF Typed, Call, OfPage
  <2> HIDE DEF callMe
  <2>2. TabOK(Send(page, callMe), mx) /\ Keeps(page, Send(page, callMe), {"calls"})
    BY <2>1, <1>2, SendOK
  <2>3. Keeps(t, Send(page, callMe), {"calls", "page"})
    BY <2>2, <1>2 DEF Keeps, TabFields
  <2> QED
    BY <2>2, <2>3, <1>2
<1>4. u = IF t.selected # old.selected /\ t.selected # NULL
          THEN Send([me EXCEPT !.bell = t.notes[t.selected]],
                    Call("bell", t.token, t.selected, t.active))
          ELSE me
  BY DEF Render, page
<1> HIDE DEF me, u
<1>5. CASE ~(t.selected # old.selected /\ t.selected # NULL)
  BY <1>3, <1>4, <1>5 DEF Keeps, TabFields, u
<1>6. CASE t.selected # old.selected /\ t.selected # NULL
  <2> DEFINE w == [me EXCEPT !.bell = t.notes[t.selected]]
             c == Call("bell", t.token, t.selected, t.active)
  <2>1. Typed(me) /\ DOMAIN me = TabFields
    BY <1>3 DEF TabOK, Typed
  <2>2. DOMAIN w = TabFields /\ Keeps(me, w, {"bell"}) /\ w.bell = t.notes[t.selected]
    BY <2>1 DEF TabFields, Keeps
  <2>3. CallOK(c) /\ \A q : OfPage(c, q)
    <3>1. t.selected = t.active /\ t.active \in Dealership /\ t.token \in User \cup {NULL}
      BY <1>1, <1>6 DEF Linked, Typed
    <3>2. CallOK(Call("bell", t.token, t.active, t.active))
      BY <3>1, CallFacts
    <3> QED
      BY <3>1, <3>2 DEF Call, OfPage
  <2>4. u = Send(w, c)
    BY <1>4, <1>6
  <2> HIDE DEF w, c
  <2>5. /\ w.page = me.page /\ w.path = me.path /\ w.token = me.token /\ w.active = me.active
        /\ w.selected = me.selected /\ w.calls = me.calls /\ w.me = me.me /\ w.notes = me.notes
    BY <2>2 DEF Keeps, TabFields
  <2>6. TabOK(w, mx)
    <3>1. Typed(w)
      BY <2>1, <2>2, <2>5 DEF Typed
    <3> QED
      BY <3>1, <2>5, <1>3
         DEF TabOK, PageOK, Linked, Belongs, Fresh, OffAtLogin, Attended, Asks
  <2>7. TabOK(u, mx) /\ Keeps(w, u, {"calls"})
    BY <2>3, <2>4, <2>6, SendOK
  <2>8. Keeps(t, u, {"calls", "page", "bell"}) /\ u.bell = t.notes[t.selected]
    BY <2>2, <2>7, <1>3 DEF Keeps, TabFields
  <2> QED
    BY <2>7, <2>8, <1>6 DEF u
<1> QED
  BY <1>5, <1>6
-----------------------------------------------------------------------------
(* What the handlers are made of *)

\* The keys of two tabs are the same only if they look at the same page of the
\* same dealership.
LEMMA KeyFacts ==
  ASSUME NEW t, NEW old, Key(t) = Key(old)
  PROVE  t.path = old.path /\ t.selected = old.selected
BY DEF Key

LEMMA ReadyMore ==
  ASSUME NEW old, NEW t, NEW mx, Ready(old, t, mx), NEW u, Typed(u),
         Keeps(t, u, {"bell", "notes", "calls"}),
         \A c \in BagToSet(u.calls) : c \in BagToSet(t.calls) \/ OfPage(c, t.path)
  PROVE  Ready(old, u, mx)
<1>1. /\ u.page = t.page /\ u.path = t.path /\ u.token = t.token /\ u.active = t.active
      /\ u.selected = t.selected /\ u.me = t.me
  BY DEF Keeps, TabFields
<1>2. Key(u) = Key(t) /\ Asks(u) = Asks(t)
  BY <1>1 DEF Key, Asks
<1>3. Linked(u) /\ Belongs(u, mx)
  BY <1>1 DEF Ready, Linked, Belongs
<1>4. ASSUME PageOK(t, mx) PROVE PageOK(u, mx)
  BY <1>1, <1>2, <1>4 DEF PageOK, Fresh, OffAtLogin, Attended
<1> QED
  BY <1>2, <1>3, <1>4 DEF Ready

LEMMA ReadyAtFirst ==
  ASSUME NEW t, NEW mx, TabOK(t, mx)
  PROVE  Ready(t, t, mx)
BY DEF TabOK, Ready

\* Once sessions have met, nothing is said of the users any more.
LEMMA MixedMore ==
  ASSUME NEW t, NEW mx, NEW my, TabOK(t, mx), mx => my
  PROVE  TabOK(t, my)
BY DEF TabOK, Belongs, PageOK, Fresh

LEMMA EmitFacts ==
  ASSUME NEW t, Typed(t)
  PROVE  /\ Typed(Emit(t)) /\ Keeps(t, Emit(t), {"selected", "page"})
         /\ Emit(t).selected = t.active
         /\ \A a \in Asks(Emit(t)) :
              \/ a \in Asks(t)
              \/ t.path = "leads" /\ t.active # NULL /\ a.user = t.token /\ a.of = t.active
<1> DEFINE v == [t EXCEPT !.selected = t.active]
           u == Emit(t)
<1>1. DOMAIN v = TabFields /\ Keeps(t, v, {"selected"}) /\ v.selected = t.active
  BY DEF Typed, TabFields, Keeps
<1>2. Typed(v)
  BY <1>1 DEF Typed, Keeps, TabFields
<1>3. /\ Asks(v) = Asks(t) /\ v.active = t.active /\ v.token = t.token /\ v.path = t.path
  BY <1>1 DEF Asks, Keeps, TabFields
<1>4. u = IF t.page.on /\ t.path = "leads" THEN Load(v) ELSE v
  BY DEF Emit
<1> HIDE DEF v, u
<1>5. CASE u = v
  BY <1>1, <1>2, <1>3, <1>5 DEF u, Keeps
<1>6. CASE u = Load(v) /\ t.path = "leads"
  <2>1. /\ Typed(u) /\ Keeps(v, u, {"page"})
        /\ \A a \in Asks(u) : \/ a \in Asks(v)
                              \/ v.active # NULL /\ a.user = v.token /\ a.of = v.active
    BY <1>2, <1>6, LoadFacts
  <2>2. Keeps(t, u, {"selected", "page"}) /\ u.selected = t.active
    BY <2>1, <1>1 DEF Keeps, TabFields
  <2> QED
    BY <2>1, <2>2, <1>3, <1>6 DEF u
<1> QED
  BY <1>4, <1>5, <1>6

\* After the listeners have heard of it a page shows the dealership that is
\* active, if it is one of the user's.
LEMMA EmitReady ==
  ASSUME NEW old, NEW mx, TabOK(old, mx), NEW t, Typed(t), Belongs(t, mx),
         Keeps(old, t, {"active", "selected", "me", "notes", "bell", "calls"}),
         BagToSet(t.calls) \subseteq BagToSet(old.calls)
  PROVE  Ready(old, Emit(t), mx)
<1> DEFINE u == Emit(t)
<1>1. /\ Typed(u) /\ Keeps(t, u, {"selected", "page"}) /\ u.selected = t.active
      /\ \A a \in Asks(u) :
           \/ a \in Asks(t)
           \/ t.path = "leads" /\ t.active # NULL /\ a.user = t.token /\ a.of = t.active
  BY EmitFacts
<1> HIDE DEF u
<1>2. /\ u.active = t.active /\ u.token = t.token /\ u.path = t.path /\ u.calls = t.calls
  BY <1>1 DEF Keeps, TabFields
<1>3. t.path = old.path /\ t.token = old.token /\ t.page = old.page
  BY DEF Keeps, TabFields
<1>4. Asks(t) = Asks(old)
  BY <1>3 DEF Asks
<1>5. Linked(u) /\ Belongs(u, mx)
  BY <1>1, <1>2 DEF Linked, Belongs
<1>6. ASSUME Key(u) = Key(old) PROVE PageOK(u, mx)
  <2>1. u.path = old.path /\ u.selected = old.selected
    BY <1>6, KeyFacts
  <2>2. Fresh(u, mx)
    <3> SUFFICES ASSUME NEW a \in Asks(u)
                 PROVE  u.selected \in {NULL, a.of} /\ (mx \/ (a.user = u.token /\ u.token # NULL))
      BY DEF Fresh
    <3>1. CASE a \in Asks(old)
      BY <3>1, <2>1, <1>2, <1>3 DEF TabOK, PageOK, Fresh
    <3>2. CASE t.active # NULL /\ a.user = t.token /\ a.of = t.active
      BY <3>2, <1>1, <1>2 DEF Belongs
    <3> QED
      BY <3>1, <3>2, <1>1, <1>4
  <2>3. OffAtLogin(u)
    BY <1>1, <1>2, <1>3, <1>4 DEF TabOK, PageOK, OffAtLogin
  <2>4. Attended(u)
    BY <1>2, <1>3 DEF TabOK, PageOK, Attended
  <2> QED
    BY <2>2, <2>3, <2>4 DEF PageOK
<1> QED
  BY <1>1, <1>5, <1>6 DEF Ready, u

\* React leaves the handler's tab as it is when nothing is to be loaded.
LEMMA PathReady ==
  ASSUME NEW old, NEW mx, NEW t, Ready(old, t, mx), t.path = old.path, NEW p
  PROVE  /\ Ready(old, [t EXCEPT !.path = p], mx)
         /\ Keeps(t, [t EXCEPT !.path = p], {"path"})
         /\ [t EXCEPT !.path = p].path = p
<1> DEFINE u == [t EXCEPT !.path = p]
<1>1. DOMAIN t = TabFields /\ Typed(t) /\ Linked(t) /\ Belongs(t, mx)
  BY DEF Ready, Typed
<1>2. DOMAIN u = TabFields /\ Keeps(t, u, {"path"}) /\ u.path = p
  BY <1>1 DEF TabFields, Keeps
<1> HIDE DEF u
<1>3. /\ u.page = t.page /\ u.calls = t.calls /\ u.token = t.token /\ u.active = t.active
      /\ u.selected = t.selected /\ u.me = t.me
  BY <1>2 DEF Keeps, TabFields
<1>4. Typed(u) /\ Linked(u) /\ Belongs(u, mx)
  BY <1>1, <1>2, <1>3 DEF Typed, Linked, Belongs, Keeps, TabFields
<1>5. ASSUME Key(u) = Key(old) PROVE PageOK(u, mx)
  <2>1. u.path = t.path
    BY <1>5, <1>2, KeyFacts
  <2>2. Key(u) = Key(t) /\ Asks(u) = Asks(t)
    BY <2>1, <1>3 DEF Key, Asks
  <2>3. PageOK(t, mx)
    BY <2>2, <1>5 DEF Ready
  <2> QED
    BY <2>1, <2>2, <2>3, <1>3 DEF PageOK, Fresh, OffAtLogin, Attended
<1> QED
  BY <1>2, <1>4, <1>5 DEF Ready, u

\* A page may ask for what the tab works in.
LEMMA AskReady ==
  ASSUME NEW old, NEW mx, NEW t, Ready(old, t, mx), t.path # "login"
  PROVE  Ready(old, Load(t), mx) /\ Keeps(t, Load(t), {"page"})
<1> DEFINE u == Load(t)
<1>1. Typed(t) /\ Linked(t) /\ Belongs(t, mx)
  BY DEF Ready
<1>2. /\ Typed(u) /\ Keeps(t, u, {"page"})
      /\ \A a \in Asks(u) : \/ a \in Asks(t)
                            \/ t.active # NULL /\ a.user = t.token /\ a.of = t.active
  BY <1>1, LoadFacts
<1> HIDE DEF u
<1>3. /\ u.path = t.path /\ u.calls = t.calls /\ u.token = t.token /\ u.active = t.active
      /\ u.selected = t.selected /\ u.me = t.me
  BY <1>2 DEF Keeps, TabFields
<1>4. Linked(u) /\ Belongs(u, mx) /\ Key(u) = Key(t)
  BY <1>1, <1>3 DEF Linked, Belongs, Key
<1>5. ASSUME Key(u) = Key(old) PROVE PageOK(u, mx)
  <2>1. PageOK(t, mx)
    BY <1>4, <1>5 DEF Ready
  <2>2. Fresh(u, mx)
    <3> SUFFICES ASSUME NEW a \in Asks(u)
                 PROVE  u.selected \in {NULL, a.of} /\ (mx \/ (a.user = u.token /\ u.token # NULL))
      BY DEF Fresh
    <3>1. CASE a \in Asks(t)
      BY <3>1, <2>1, <1>3 DEF PageOK, Fresh
    <3>2. CASE t.active # NULL /\ a.user = t.token /\ a.of = t.active
      BY <3>2, <1>1, <1>3 DEF Belongs, Linked
    <3> QED
      BY <3>1, <3>2, <1>2
  <2> QED
    BY <2>1, <2>2, <1>3 DEF PageOK, OffAtLogin, Attended
<1> QED
  BY <1>2, <1>4, <1>5 DEF Ready, u

LEMMA LoadReady ==
  ASSUME NEW old, NEW mx, NEW t, Ready(old, t, mx), t.path # "login",
         NEW p \in PageType, p.loads = t.page.loads, p.shown = t.page.shown
  PROVE  /\ Ready(old, Load([t EXCEPT !.page = p]), mx)
         /\ Keeps(t, Load([t EXCEPT !.page = p]), {"page"})
<1> DEFINE v == [t EXCEPT !.page = p]
<1>1. DOMAIN t = TabFields /\ Typed(t) /\ Linked(t) /\ Belongs(t, mx)
  BY DEF Ready, Typed
<1>2. DOMAIN v = TabFields /\ Keeps(t, v, {"page"}) /\ v.page = p
  BY <1>1 DEF TabFields, Keeps
<1> HIDE DEF v
<1>3. Typed(v)
  BY <1>1, <1>2 DEF Typed, Keeps, TabFields
<1>4. /\ v.path = t.path /\ v.calls = t.calls /\ v.token = t.token /\ v.active = t.active
      /\ v.selected = t.selected /\ v.me = t.me /\ Asks(v) = Asks(t)
  BY <1>2 DEF Keeps, TabFields, Asks
<1>5. Linked(v) /\ Belongs(v, mx) /\ Key(v) = Key(t)
  BY <1>1, <1>4 DEF Linked, Belongs, Key
<1>6. ASSUME PageOK(t, mx) PROVE PageOK(v, mx)
  BY <1>4, <1>6 DEF PageOK, Fresh, OffAtLogin, Attended
<1>7. Ready(old, v, mx)
  BY <1>3, <1>5, <1>6 DEF Ready
<1>8. Ready(old, Load(v), mx) /\ Keeps(v, Load(v), {"page"})
  BY <1>4, <1>7, AskReady
<1> QED
  BY <1>2, <1>8 DEF Keeps, v

\* The first dealership of a user is one of his.
LEMMA FirstFacts ==
  ASSUME NEW u \in User
  PROVE  First(u) \in Dealership \cup {NULL} /\ (First(u) # NULL => First(u) \in Mine(u))
<1> DEFINE s == Memberships[u]
<1>1. s \in Seq(Dealership)
  BY WebAssumption
<1>2. CASE s = <<>>
  BY <1>2 DEF First
<1>3. CASE s # <<>>
  <2>1. First(u) = s[1] /\ 1 \in DOMAIN s /\ s[1] \in Dealership
    BY <1>1, <1>3 DEF First
  <2>2. s[1] \in Mine(u)
    BY <2>1 DEF Mine, ToSet
  <2> QED
    BY <2>1, <2>2
<1> QED
  BY <1>2, <1>3

\* Whoever is told his dealerships works in one of them, or in the one he was in.
LEMMA ChooseReady ==
  ASSUME NEW old, NEW mx, TabOK(old, mx), NEW t, Typed(t),
         Keeps(old, t, {"me", "notes", "bell", "calls"}),
         BagToSet(t.calls) \subseteq BagToSet(old.calls),
         NEW u \in User, ~mx => u = t.token
  PROVE  Ready(old, Choose(t, u), mx) /\ Keeps(t, Choose(t, u), {"active", "selected", "page"})
<1> DEFINE d == IF t.active # NULL THEN t.active ELSE First(u)
<1>1. /\ t.path = old.path /\ t.token = old.token /\ t.page = old.page
      /\ t.active = old.active /\ t.selected = old.selected
  BY DEF Keeps, TabFields
<1>2. Belongs(t, mx) /\ Linked(t) /\ Asks(t) = Asks(old)
  BY <1>1 DEF TabOK, Belongs, Linked, Asks
<1>3. CASE d = NULL
  <2> DEFINE v == [t EXCEPT !.selected = NULL]
  <2>1. Choose(t, u) = v /\ t.active = NULL
    BY <1>3 DEF Choose
  <2>2. DOMAIN v = TabFields /\ Keeps(t, v, {"selected"}) /\ v.selected = NULL
    BY DEF Typed, TabFields, Keeps
  <2> HIDE DEF v
  <2>3. Typed(v)
    BY <2>2 DEF Typed, Keeps, TabFields
  <2>4. /\ v.active = NULL /\ v.token = old.token /\ v.path = old.path /\ v.calls = t.calls
        /\ Asks(v) = Asks(old)
    BY <2>1, <2>2, <1>1, <1>2 DEF Keeps, TabFields, Asks
  <2>5. Linked(v) /\ Belongs(v, mx)
    BY <2>2, <2>4 DEF Linked, Belongs
  <2>6. PageOK(v, mx)
    BY <2>2, <2>4 DEF PageOK, TabOK, Fresh, OffAtLogin, Attended
  <2> QED
    BY <2>1, <2>2, <2>3, <2>5, <2>6 DEF Ready, Keeps
<1>4. CASE d # NULL
  <2> DEFINE v == [t EXCEPT !.active = d]
  <2>1. Choose(t, u) = Emit(v)
    BY <1>4 DEF Choose, SetActive
  <2>2. DOMAIN v = TabFields /\ Keeps(t, v, {"active"}) /\ v.active = d
    BY DEF Typed, TabFields, Keeps
  <2>3. d \in Dealership \cup {NULL}
    BY FirstFacts DEF Typed
  <2>4. ~mx => t.token # NULL /\ d \in Mine(t.token)
    <3>1. CASE t.active # NULL
      BY <3>1, <1>2 DEF Belongs
    <3>2. CASE t.active = NULL
      <4>1. u # NULL
        BY WebAssumption
      <4> QED
        BY <4>1, <3>2, <1>4, FirstFacts
    <3> QED
      BY <3>1, <3>2
  <2> HIDE DEF v, d
  <2>5. Typed(v)
    BY <2>2, <2>3 DEF Typed, Keeps, TabFields
  <2>6. v.token = t.token /\ v.calls = t.calls
    BY <2>2 DEF Keeps, TabFields
  <2>7. Belongs(v, mx)
    BY <2>2, <2>4, <2>6 DEF Belongs
  <2>8. Keeps(old, v, {"active", "selected", "me", "notes", "bell", "calls"})
    BY <2>2 DEF Keeps, TabFields
  <2>9. Ready(old, Emit(v), mx)
    BY <2>5, <2>6, <2>7, <2>8, EmitReady
  <2>10. Keeps(v, Emit(v), {"selected", "page"})
    BY <2>5, EmitFacts
  <2> QED
    BY <2>1, <2>2, <2>9, <2>10 DEF Keeps
<1> QED
  BY <1>3, <1>4

\* Nothing of a session is left after clearAuth, and its page is gone.
LEMMA LogoutReady ==
  ASSUME NEW old, NEW mx, TabOK(old, mx), NEW t, Typed(t),
         Keeps(old, t, {"calls"}), BagToSet(t.calls) \subseteq BagToSet(old.calls)
  PROVE  /\ Ready(old, [ClearAuth(t) EXCEPT !.path = "login"], mx)
         /\ Keeps(t, [ClearAuth(t) EXCEPT !.path = "login"],
                  {"token", "active", "selected", "page", "path"})
<1> DEFINE v == [t EXCEPT !.token = NULL, !.active = NULL]
           w == Emit(v)
           u == [w EXCEPT !.path = "login"]
<1>1. /\ DOMAIN v = TabFields /\ Keeps(t, v, {"token", "active"}) /\ v.active = NULL
      /\ v.token = NULL
  BY DEF Typed, TabFields, Keeps
<1>2. u = [ClearAuth(t) EXCEPT !.path = "login"]
  BY DEF ClearAuth
<1> HIDE DEF v
<1>3. Typed(v)
  BY <1>1 DEF Typed, Keeps, TabFields
<1>4. v.path = old.path /\ v.page = old.page /\ v.calls = t.calls
  BY <1>1 DEF Keeps, TabFields
<1>5. Asks(v) = Asks(old)
  BY <1>4 DEF Asks
<1>6. /\ Typed(w) /\ Keeps(v, w, {"selected", "page"}) /\ w.selected = NULL
      /\ Asks(w) \subseteq Asks(old)
  BY <1>1, <1>3, <1>5, EmitFacts
<1> HIDE DEF w
<1>7. DOMAIN u = TabFields /\ Keeps(w, u, {"path"}) /\ u.path = "login"
  BY <1>6 DEF Typed, TabFields, Keeps
<1> HIDE DEF u
<1>8. /\ u.active = NULL /\ u.selected = NULL /\ u.calls = t.calls /\ u.page = w.page
  BY <1>1, <1>4, <1>6, <1>7 DEF Keeps, TabFields
<1>9. Typed(u)
  BY <1>6, <1>7 DEF Typed, Keeps, TabFields
<1>10. Linked(u) /\ Belongs(u, mx) /\ Asks(u) = Asks(w)
  BY <1>8 DEF Linked, Belongs, Asks
<1>11. ASSUME Key(u) = Key(old) PROVE PageOK(u, mx)
  <2>1. old.path = "login"
    BY <1>7, <1>11, KeyFacts
  <2>2. Asks(u) = {}
    BY <2>1, <1>6, <1>10 DEF TabOK, PageOK, OffAtLogin
  <2> QED
    BY <2>1, <2>2, <1>7, <1>8 DEF TabOK, PageOK, Fresh, OffAtLogin, Attended
<1>12. Keeps(t, u, {"token", "active", "selected", "page", "path"})
  BY <1>1, <1>6, <1>7 DEF Keeps, TabFields
<1> QED
  BY <1>2, <1>9, <1>10, <1>11, <1>12 DEF Ready

\* Who logs in finds an empty tab, unless he logs in over another.
LEMMA TokenReady ==
  ASSUME NEW old, NEW mx, TabOK(old, mx), NEW t, Typed(t),
         Keeps(old, t, {"calls"}), BagToSet(t.calls) \subseteq BagToSet(old.calls),
         NEW u \in User, NEW my, mx => my, old.token \notin {NULL, u} => my
  PROVE  /\ Ready(old, [t EXCEPT !.token = u], my)
         /\ Keeps(t, [t EXCEPT !.token = u], {"token"})
<1> DEFINE v == [t EXCEPT !.token = u]
<1>1. DOMAIN v = TabFields /\ Keeps(t, v, {"token"}) /\ v.token = u
  BY DEF Typed, TabFields, Keeps
<1> HIDE DEF v
<1>2. Typed(v)
  BY <1>1 DEF Typed, Keeps, TabFields
<1>3. /\ v.path = old.path /\ v.page = old.page /\ v.calls = t.calls /\ v.active = old.active
      /\ v.selected = old.selected
  BY <1>1 DEF Keeps, TabFields
<1>4. Asks(v) = Asks(old) /\ Linked(v)
  BY <1>3 DEF Asks, Linked, TabOK
<1>5. u # NULL
  BY WebAssumption
<1>6. Belongs(v, my)
  BY <1>1, <1>3, <1>5 DEF Belongs, TabOK
<1>7. Fresh(v, my)
  <2>1. TabOK(old, my)
    BY MixedMore
  <2> SUFFICES ASSUME NEW a \in Asks(old)
               PROVE  v.selected \in {NULL, a.of} /\ (my \/ (a.user = v.token /\ v.token # NULL))
    BY <1>4 DEF Fresh
  <2> QED
    BY <2>1, <1>1, <1>3, <1>5 DEF TabOK, PageOK, Fresh
<1>8. PageOK(v, my)
  BY <1>3, <1>4, <1>7 DEF TabOK, PageOK, OffAtLogin, Attended
<1> QED
  BY <1>1, <1>2, <1>4, <1>6, <1>8 DEF Ready, v

\* A page that shows less is still right.
LEMMA PageReady ==
  ASSUME NEW old, NEW mx, TabOK(old, mx), NEW p \in PageType,
         ToSet(p.loads) \cup ({p.shown} \ {NULL}) \subseteq Asks(old)
  PROVE  /\ Ready(old, [old EXCEPT !.page = p], mx)
         /\ Keeps(old, [old EXCEPT !.page = p], {"page"})
<1> DEFINE u == [old EXCEPT !.page = p]
<1>1. DOMAIN u = TabFields /\ Keeps(old, u, {"page"}) /\ u.page = p
  BY DEF TabOK, Typed, TabFields, Keeps
<1> HIDE DEF u
<1>2. /\ u.path = old.path /\ u.calls = old.calls /\ u.active = old.active
      /\ u.selected = old.selected /\ u.token = old.token /\ Asks(u) \subseteq Asks(old)
  BY <1>1 DEF Keeps, TabFields, Asks
<1>3. Typed(u)
  BY <1>1 DEF TabOK, Typed, Keeps, TabFields
<1>4. Linked(u) /\ Belongs(u, mx) /\ PageOK(u, mx)
  BY <1>2 DEF TabOK, Linked, Belongs, PageOK, Fresh, OffAtLogin, Attended
<1> QED
  BY <1>1, <1>3, <1>4 DEF Ready, u

\* The select offers the dealerships that fetchMe told.
LEMMA SwitchReady ==
  ASSUME NEW old, NEW mx, TabOK(old, mx), NEW d \in Dealership \cup {NULL},
         ~mx /\ d # NULL => old.token # NULL /\ d \in Mine(old.token)
  PROVE  /\ Ready(old, SetActive(old, d), mx)
         /\ Keeps(old, SetActive(old, d), {"active", "selected", "page"})
<1> DEFINE v == [old EXCEPT !.active = d]
<1>1. DOMAIN v = TabFields /\ Keeps(old, v, {"active"}) /\ v.active = d
  BY DEF TabOK, Typed, TabFields, Keeps
<1>2. SetActive(old, d) = Emit(v)
  BY DEF SetActive
<1> HIDE DEF v
<1>3. Typed(v) /\ v.calls = old.calls /\ v.token = old.token
  BY <1>1 DEF TabOK, Typed, Keeps, TabFields
<1>4. Belongs(v, mx) /\ Keeps(old, v, {"active", "selected", "me", "notes", "bell", "calls"})
  BY <1>1, <1>3 DEF Belongs, Keeps, TabFields
<1>5. Ready(old, Emit(v), mx) /\ Keeps(v, Emit(v), {"selected", "page"})
  BY <1>3, <1>4, EmitReady, EmitFacts
<1> QED
  BY <1>1, <1>2, <1>5 DEF Keeps, TabFields

\* The shell hears of what is filed, and shows it if it is for its dealership.
LEMMA AnnounceReady ==
  ASSUME NEW old, NEW mx, NEW t, Ready(old, t, mx), NEW d \in Dealership, NEW N \in SUBSET Note
  PROVE  LET u == Announce([t EXCEPT !.notes[d] = N]) IN
         /\ Ready(old, u, mx) /\ Keeps(t, u, {"notes", "bell"})
         /\ u.notes = [t.notes EXCEPT ![d] = N]
         /\ u.selected # NULL => u.bell = u.notes[u.selected]
<1> DEFINE v == [t EXCEPT !.notes[d] = N]
           u == Announce(v)
<1>1. Typed(t) /\ DOMAIN t = TabFields /\ t.notes \in [Dealership -> SUBSET Note]
  BY DEF Ready, Typed
<1>2. /\ DOMAIN v = TabFields /\ Keeps(t, v, {"notes"})
      /\ v.notes = [t.notes EXCEPT ![d] = N]
  BY <1>1 DEF TabFields, Keeps
<1>3. v.notes \in [Dealership -> SUBSET Note]
  BY <1>1, <1>2
<1> HIDE DEF v
<1>4. Typed(v)
  BY <1>1, <1>2, <1>3 DEF Typed, Keeps, TabFields
<1>5. /\ DOMAIN u = TabFields /\ Keeps(v, u, {"bell"})
      /\ u.selected # NULL => u.bell = v.notes[u.selected]
  BY <1>2 DEF Announce, TabFields, Keeps
<1> HIDE DEF u
<1>6. Keeps(t, u, {"notes", "bell"}) /\ u.notes = v.notes /\ u.calls = t.calls
  BY <1>2, <1>5 DEF Keeps, TabFields
<1>7. Typed(u)
  BY <1>4, <1>5 DEF Typed, Keeps, TabFields
<1>8. Ready(old, u, mx)
  <2>1. Keeps(t, u, {"bell", "notes", "calls"})
    BY <1>6 DEF Keeps
  <2> QED
    BY <2>1, <1>6, <1>7, ReadyMore
<1> QED
  BY <1>2, <1>5, <1>6, <1>8 DEF u, v

LEMMA UpsertType ==
  ASSUME NEW N \in SUBSET Note, NEW told \in SUBSET Row, NEW kept \in Upsert(N, told)
  PROVE  kept \in SUBSET Note
<1>1. New(N, told) \in SUBSET Note
  <2>1. \A r \in told : [id |-> r.id, at |-> r.at, read |-> FALSE] \in Note
    BY DEF Row, Note
  <2> QED
    BY <2>1 DEF New
<1>2. kept \subseteq N \cup New(N, told)
  BY DEF Upsert, Cuts, kSubset
<1> QED
  BY <1>1, <1>2

LEMMA MarkedType ==
  ASSUME NEW N \in SUBSET Note, NEW ids
  PROVE  Marked(N, ids) \in SUBSET Note
<1>1. ASSUME NEW n \in Note
      PROVE  [n EXCEPT !.read = @ \/ n.id \in ids] \in Note
  <2>1. (n.read \/ n.id \in ids) \in BOOLEAN
    BY DEF Note
  <2> QED
    BY <2>1 DEF Note
<1> QED
  BY <1>1 DEF Marked

LEMMA IngestReady ==
  ASSUME NEW old, NEW mx, NEW t, Ready(old, t, mx), NEW d \in Dealership,
         NEW told \in SUBSET Row, NEW u \in Ingest(t, d, told)
  PROVE  /\ Ready(old, u, mx) /\ Keeps(t, u, {"notes", "bell"})
         /\ \E kept \in Upsert(t.notes[d], told) : u.notes = [t.notes EXCEPT ![d] = kept]
         /\ u.selected # NULL => u.bell = u.notes[u.selected]
<1>1. t.notes[d] \in SUBSET Note
  BY DEF Ready, Typed
<1>2. PICK kept \in Upsert(t.notes[d], told) : u = Announce([t EXCEPT !.notes[d] = kept])
  BY DEF Ingest
<1>3. kept \in SUBSET Note
  BY <1>1, UpsertType
<1> DEFINE v == Announce([t EXCEPT !.notes[d] = kept])
<1>4. /\ Ready(old, v, mx) /\ Keeps(t, v, {"notes", "bell"})
      /\ v.notes = [t.notes EXCEPT ![d] = kept]
      /\ v.selected # NULL => v.bell = v.notes[v.selected]
  BY <1>3, AnnounceReady
<1> HIDE DEF v
<1>5. u = v
  BY <1>2 DEF v
<1> QED
  BY <1>3, <1>4, <1>5

\* A document that has just been loaded has nothing to answer for.
LEMMA BlankOK ==
  ASSUME NEW t, NEW mx, TabOK(t, mx)
  PROVE  /\ TabOK(Blank(t), mx) /\ Blank(t).selected = NULL /\ Blank(t).notes = t.notes
<1> DEFINE u == Blank(t)
<1>1. /\ DOMAIN u = TabFields /\ Keeps(t, u, {"path", "selected", "me", "bell", "page", "calls"})
      /\ u.path = NULL /\ u.selected = NULL /\ u.me = NULL /\ u.page = NoPage
      /\ u.calls = EmptyBag
  BY DEF Blank, TabOK, Typed, TabFields, Keeps
<1> HIDE DEF u
<1>2. /\ u.token = t.token /\ u.active = t.active /\ u.notes = t.notes /\ BagToSet(u.calls) = {}
  BY <1>1, BagFacts DEF Keeps, TabFields
<1>3. Asks(u) = {}
  BY <1>1, NoPageFacts DEF Asks
<1>4. Typed(u)
  BY <1>1, <1>2, NoPageFacts DEF TabOK, Typed
<1> QED
  BY <1>1, <1>2, <1>3, <1>4
     DEF TabOK, Linked, Belongs, PageOK, Fresh, OffAtLogin, Attended, u

\* And a first visit as little.
LEMMA OpenedOK ==
  ASSUME NEW u \in User \cup {NULL}, NEW d \in Dealership \cup {NULL}, NEW p,
         d # NULL => u # NULL /\ d \in Mine(u)
  PROVE  /\ TabOK(Opened(u, d, p), FALSE) /\ Opened(u, d, p).selected = NULL
         /\ Opened(u, d, p).notes = [e \in Dealership |-> {}]
<1> DEFINE t == [token |-> u, active |-> d, path |-> NULL, selected |-> NULL, me |-> NULL,
                 bell |-> {}, page |-> NoPage, notes |-> [e \in Dealership |-> {}],
                 calls |-> EmptyBag]
<1>1. /\ DOMAIN t = TabFields /\ t.token = u /\ t.active = d /\ t.path = NULL
      /\ t.selected = NULL /\ t.me = NULL /\ t.page = NoPage /\ t.calls = EmptyBag
      /\ t.notes = [e \in Dealership |-> {}]
  BY DEF TabFields
<1>2. Opened(u, d, p) = Render(t, [t EXCEPT !.path = p])
  BY DEF Opened
<1> HIDE DEF t
<1>3. Asks(t) = {} /\ BagToSet(t.calls) = {}
  BY <1>1, NoPageFacts, BagFacts DEF Asks
<1>4. Typed(t)
  BY <1>1, <1>3, NoPageFacts DEF Typed
<1>5. TabOK(t, FALSE)
  BY <1>1, <1>3, <1>4 DEF TabOK, Linked, Belongs, PageOK, Fresh, OffAtLogin, Attended
<1> DEFINE v == [t EXCEPT !.path = p]
<1>6. Ready(t, v, FALSE) /\ Keeps(t, v, {"path"})
  BY <1>5, ReadyAtFirst, PathReady
<1> HIDE DEF v
<1>7. TabOK(Render(t, v), FALSE) /\ Keeps(v, Render(t, v), {"calls", "page", "bell"})
  BY <1>6, RenderFacts
<1> QED
  BY <1>1, <1>2, <1>6, <1>7 DEF Keeps, TabFields, v

\* A handler's tab becomes the tab, with the bell of its dealership unless it
\* was set late and nothing has set it since.
LEMMA StepFacts ==
  ASSUME NEW old, NEW t, NEW new, NEW mx, NEW lb \in BOOLEAN, NEW lb2,
         new = Render(old, t), lb2 = (lb /\ new.selected = old.selected), Ready(old, t, mx),
         t.selected = old.selected /\ t.selected # NULL /\ ~lb => t.bell = t.notes[t.selected]
  PROVE  /\ TabOK(new, mx) /\ new.notes = t.notes /\ new.selected = t.selected
         /\ lb2 \in BOOLEAN
         /\ new.selected # NULL /\ ~lb2 => new.bell = new.notes[new.selected]
<1>1. /\ TabOK(new, mx) /\ Keeps(t, new, {"calls", "page", "bell"})
      /\ new.bell = IF t.selected # old.selected /\ t.selected # NULL
                    THEN t.notes[t.selected] ELSE t.bell
  BY RenderFacts
<1>2. new.notes = t.notes /\ new.selected = t.selected
  BY <1>1 DEF Keeps, TabFields
<1> QED
  BY <1>1, <1>2

-----------------------------------------------------------------------------
(* One lemma for each action *)

Single(notes) == \A m, n \in notes : m.id = n.id => m = n

\* What may be told for a dealership, when the imports of str have gone astray.
Tells(told, d, str) ==
  /\ told \in SUBSET Row /\ IsFiniteSet(told) /\ Single(told)
  /\ \A r \in told : Home[r.id] = d \/ r.id \in str

Refiled(notes, kept, d, str) ==
  \E told : Tells(told, d, str) /\ kept \in Upsert(notes, told)

\* What a step does to the notes that are kept.
NotesStep ==
  \/ tab'.notes = tab.notes /\ read' = read
  \/ \E d \in Dealership : \E mid, kept :
       /\ Refiled(tab.notes[d], mid, d, strayed')
       /\ kept = mid \/ Refiled(mid, kept, d, strayed')
       /\ tab'.notes = [tab.notes EXCEPT ![d] = kept] /\ read' = read
  \/ \E d \in Dealership : \E ids :
       /\ tab'.notes = [tab.notes EXCEPT ![d] = Marked(tab.notes[d], ids)]
       /\ read' = [read EXCEPT ![d] = @ \cup Rows({n \in tab.notes[d] : n.id \in ids})]

WebInv ==
  /\ TabOK(tab, mixed) /\ BellIsSelected
  /\ mixed \in BOOLEAN /\ lateBell \in BOOLEAN
  /\ present \subseteq Row /\ IsFiniteSet(present) /\ Single(present)

\* What a step leaves behind, what exists at the server apart.
StepOK ==
  /\ TabOK(tab', mixed') /\ BellIsSelected' /\ mixed' \in BOOLEAN /\ lateBell' \in BOOLEAN
  /\ NotesStep /\ strayed \subseteq strayed'

\* A handler that lets the notes and the bell be.
LEMMA PlainStep ==
  ASSUME WebInv, NEW t, NEW X, Ready(tab, t, mixed'), Keeps(tab, t, X),
         "notes" \notin X, "bell" \notin X,
         tab' = Render(tab, t), lateBell' = (lateBell /\ tab'.selected = tab.selected),
         mixed' \in BOOLEAN, strayed' = strayed, read' = read
  PROVE  StepOK
<1>1. t.notes = tab.notes /\ t.bell = tab.bell
  BY DEF Keeps, TabFields
<1>2. t.selected = tab.selected /\ t.selected # NULL /\ ~lateBell => t.bell = t.notes[t.selected]
  BY <1>1 DEF WebInv, BellIsSelected
<1>3. lateBell \in BOOLEAN
  BY DEF WebInv
<1>4. /\ TabOK(tab', mixed') /\ tab'.notes = t.notes /\ lateBell' \in BOOLEAN
      /\ tab'.selected # NULL /\ ~lateBell' => tab'.bell = tab'.notes[tab'.selected]
  BY <1>2, <1>3, StepFacts
<1> QED
  BY <1>1, <1>4 DEF StepOK, NotesStep, BellIsSelected

LEMMA SendStep ==
  ASSUME WebInv, NEW c, CallOK(c), OfPage(c, tab.path), Step(Send(tab, c)), NoHistory
  PROVE  StepOK
<1> DEFINE t == Send(tab, c)
<1>1. TabOK(t, mixed) /\ Keeps(tab, t, {"calls"}) /\ BagToSet(t.calls) = BagToSet(tab.calls) \cup {c}
  BY SendOK DEF WebInv
<1>2. Typed(t) /\ mixed' = mixed /\ mixed \in BOOLEAN /\ strayed' = strayed /\ read' = read
  BY <1>1 DEF TabOK, NoHistory, WebInv
<1>3. /\ tab' = Render(tab, t) /\ lateBell' = (lateBell /\ tab'.selected = tab.selected)
  BY DEF Step
<1> HIDE DEF t
<1>4. Ready(tab, tab, mixed)
  BY ReadyAtFirst DEF WebInv
<1>5. Keeps(tab, t, {"bell", "notes", "calls"})
  BY <1>1 DEF Keeps
<1>6. Ready(tab, t, mixed)
  BY <1>1, <1>2, <1>4, <1>5, ReadyMore
<1> QED
  BY <1>1, <1>2, <1>3, <1>6, PlainStep

\* A handler that has set the bell right.
LEMMA AnnouncedStep ==
  ASSUME WebInv, NEW t, Announced(t), Ready(tab, t, mixed), mixed' = mixed,
         t.selected # NULL => t.bell = t.notes[t.selected]
  PROVE  /\ TabOK(tab', mixed') /\ BellIsSelected' /\ mixed' \in BOOLEAN
         /\ lateBell' \in BOOLEAN /\ tab'.notes = t.notes
<1>1. tab' = Render(tab, t) /\ lateBell' = FALSE
  BY DEF Announced
<1>2. /\ TabOK(tab', mixed) /\ Keeps(t, tab', {"calls", "page", "bell"})
      /\ tab'.bell = IF t.selected # tab.selected /\ t.selected # NULL
                     THEN t.notes[t.selected] ELSE t.bell
  BY <1>1, RenderFacts
<1>3. tab'.notes = t.notes /\ tab'.selected = t.selected
  BY <1>2 DEF Keeps, TabFields
<1>4. BellIsSelected'
  BY <1>2, <1>3 DEF BellIsSelected
<1> QED
  BY <1>1, <1>2, <1>3, <1>4 DEF WebInv

LEMMA ArriveOK ==
  ASSUME WebInv, Arrive \/ Reschedule
  PROVE  StepOK
<1>1. /\ tab' = tab /\ mixed' = mixed /\ lateBell' = lateBell /\ strayed' = strayed
      /\ read' = read
  BY DEF Arrive, Reschedule
<1> QED
  BY <1>1 DEF WebInv, StepOK, NotesStep, BellIsSelected

LEMMA SubmitOK ==
  ASSUME WebInv, SubmitLogin \/ SubmitInvitation \/ SubmitImport
  PROVE  StepOK
<1>1. CASE SubmitLogin
  <2> PICK u \in User : Step(Send(tab, Call("login", u, NULL, NULL)))
    BY <1>1 DEF SubmitLogin
  <2>1. CallOK(Call("login", u, NULL, NULL)) /\ OfPage(Call("login", u, NULL, NULL), tab.path)
    BY CallFacts DEF Call, OfPage
  <2> QED
    BY <2>1, <1>1, SendStep DEF SubmitLogin
<1>2. CASE SubmitInvitation
  <2> PICK u \in User : Step(Send(tab, Call("accept", u, NULL, NULL)))
    BY <1>2 DEF SubmitInvitation
  <2>1. CallOK(Call("accept", u, NULL, NULL)) /\ OfPage(Call("accept", u, NULL, NULL), tab.path)
    BY CallFacts DEF Call, OfPage
  <2> QED
    BY <2>1, <1>2, SendStep DEF SubmitInvitation
<1>3. CASE SubmitImport
  <2> DEFINE c == Call("import", tab.token, NULL, tab.active)
  <2>1. tab.token \in User \cup {NULL} /\ tab.active \in Dealership
    BY <1>3 DEF SubmitImport, WebInv, TabOK, Typed
  <2>2. CallOK(c) /\ OfPage(c, tab.path)
    BY <2>1, <1>3, CallFacts DEF Call, OfPage, SubmitImport
  <2>3. Step(Send(tab, c)) /\ NoHistory
    BY <1>3 DEF SubmitImport
  <2> HIDE DEF c
  <2> QED
    BY <2>2, <2>3, SendStep
<1> QED
  BY <1>1, <1>2, <1>3

LEMMA LogoutOK ==
  ASSUME WebInv, Logout
  PROVE  StepOK
<1> DEFINE t == [ClearAuth(tab) EXCEPT !.path = "login"]
<1>1. /\ tab' = Render(tab, t) /\ lateBell' = (lateBell /\ tab'.selected = tab.selected)
      /\ mixed' = mixed /\ strayed' = strayed /\ read' = read
  BY DEF Logout, Step, NoHistory
<1>2. /\ Typed(tab) /\ TabOK(tab, mixed) /\ mixed \in BOOLEAN /\ Keeps(tab, tab, {"calls"})
  BY DEF WebInv, TabOK, Keeps
<1>3. /\ Ready(tab, t, mixed) /\ Keeps(tab, t, {"token", "active", "selected", "page", "path"})
  BY <1>2, LogoutReady
<1> HIDE DEF t
<1> QED
  BY <1>1, <1>2, <1>3, PlainStep

LEMMA SwitchOK ==
  ASSUME WebInv, Switch
  PROVE  StepOK
<1>1. PICK d \in {NULL} \cup (IF tab.me = NULL THEN {} ELSE Mine(tab.me)) :
        Step(SetActive(tab, d))
  BY DEF Switch
<1> DEFINE t == SetActive(tab, d)
<1>2. /\ tab' = Render(tab, t) /\ lateBell' = (lateBell /\ tab'.selected = tab.selected)
      /\ mixed' = (mixed \/ tab.me # tab.token) /\ strayed' = strayed /\ read' = read
  BY <1>1 DEF Switch, Step
<1>3. /\ TabOK(tab, mixed) /\ mixed \in BOOLEAN /\ mixed' \in BOOLEAN /\ tab.me \in User \cup {NULL}
  BY <1>2 DEF WebInv, TabOK, Typed
<1>4. TabOK(tab, mixed')
  BY <1>2, <1>3, MixedMore
<1>5. d # NULL => tab.me # NULL /\ tab.me \in User /\ d \in Mine(tab.me)
  BY <1>3
<1>6. d \in Dealership \cup {NULL}
  <2> SUFFICES ASSUME d # NULL PROVE d \in Dealership
    OBVIOUS
  <2>1. Memberships[tab.me] \in Seq(Dealership) /\ d \in ToSet(Memberships[tab.me])
    BY <1>5, WebAssumption DEF Mine
  <2> QED
    BY <2>1 DEF ToSet
<1>7. ~mixed' /\ d # NULL => tab.token # NULL /\ d \in Mine(tab.token)
  BY <1>2, <1>3, <1>5
<1>8. Ready(tab, t, mixed') /\ Keeps(tab, t, {"active", "selected", "page"})
  BY <1>4, <1>6, <1>7, SwitchReady
<1> HIDE DEF t
<1> QED
  BY <1>2, <1>3, <1>8, PlainStep

LEMMA GoOK ==
  ASSUME WebInv, Go
  PROVE  StepOK
<1>1. PICK p \in {"dashboard", "leads", "integrations"} : Step([tab EXCEPT !.path = p])
  BY DEF Go
<1> DEFINE t == [tab EXCEPT !.path = p]
<1>2. /\ tab' = Render(tab, t) /\ lateBell' = (lateBell /\ tab'.selected = tab.selected)
      /\ mixed' = mixed /\ strayed' = strayed /\ read' = read
  BY <1>1 DEF Go, Step, NoHistory
<1>3. Ready(tab, tab, mixed) /\ mixed \in BOOLEAN
  BY ReadyAtFirst DEF WebInv
<1>4. Ready(tab, t, mixed) /\ Keeps(tab, t, {"path"})
  BY <1>3, PathReady
<1> HIDE DEF t
<1> QED
  BY <1>2, <1>3, <1>4, PlainStep

LEMMA VisitOK ==
  ASSUME WebInv, Visit
  PROVE  StepOK
<1>1. PICK p \in Path : tab' = Render(Blank(tab), [Blank(tab) EXCEPT !.path = p])
  BY DEF Visit
<1> DEFINE b == Blank(tab)
           t == [b EXCEPT !.path = p]
<1>2. /\ tab' = Render(b, t) /\ lateBell' = FALSE
      /\ mixed' = mixed /\ strayed' = strayed /\ read' = read
  BY <1>1 DEF Visit, NoHistory
<1>3. TabOK(b, mixed) /\ mixed \in BOOLEAN /\ b.selected = NULL /\ b.notes = tab.notes
  BY BlankOK DEF WebInv
<1> HIDE DEF b
<1>4. Ready(b, t, mixed) /\ Keeps(b, t, {"path"})
  BY <1>3, ReadyAtFirst, PathReady
<1> HIDE DEF t
<1>5. TabOK(tab', mixed) /\ Keeps(t, tab', {"calls", "page", "bell"})
  BY <1>2, <1>4, RenderFacts
<1>6. tab'.selected = NULL /\ tab'.notes = tab.notes
  BY <1>3, <1>4, <1>5 DEF Keeps, TabFields
<1> QED
  BY <1>2, <1>3, <1>5, <1>6 DEF StepOK, NotesStep, BellIsSelected

LEMMA ChangeFilterOK ==
  ASSUME WebInv, ChangeFilter
  PROVE  StepOK
<1>1. PICK f \in Filter \cup {NULL} : Step(Filtered(tab, f))
  BY DEF ChangeFilter
<1> DEFINE p == [tab.page EXCEPT !.filter = f]
           t == Load([tab EXCEPT !.page = p])
<1>2. Filtered(tab, f) = t
  BY DEF Filtered
<1>3. /\ tab' = Render(tab, t) /\ lateBell' = (lateBell /\ tab'.selected = tab.selected)
      /\ mixed' = mixed /\ strayed' = strayed /\ read' = read
  BY <1>1, <1>2 DEF ChangeFilter, Step, NoHistory
<1>4. Ready(tab, tab, mixed) /\ mixed \in BOOLEAN /\ tab.path # "login" /\ tab.page \in PageType
  BY ReadyAtFirst DEF WebInv, ChangeFilter, TabOK, Typed
<1>5. p \in PageType /\ p.loads = tab.page.loads /\ p.shown = tab.page.shown
  BY <1>4 DEF PageType
<1> HIDE DEF p
<1>6. Ready(tab, t, mixed) /\ Keeps(tab, t, {"page"})
  BY <1>4, <1>5, LoadReady
<1> HIDE DEF t
<1> QED
  BY <1>3, <1>4, <1>6, PlainStep

LEMMA MarkReadOK ==
  ASSUME WebInv, MarkRead
  PROVE  StepOK
<1>1. PICK i \in {n.id : n \in tab.bell}, all \in BOOLEAN :
        LET d == tab.selected
            ids == IF all THEN {n.id : n \in tab.notes[d]} ELSE {i}
            t == Announce([tab EXCEPT !.notes[d] = Marked(tab.notes[d], ids)])
        IN /\ Announced(IF all THEN t ELSE [t EXCEPT !.path = "leads"])
           /\ read' = [read EXCEPT ![d] = @ \cup Rows({n \in tab.notes[d] : n.id \in ids})]
  BY DEF MarkRead
<1> DEFINE d == tab.selected
           ids == IF all THEN {n.id : n \in tab.notes[d]} ELSE {i}
           N == Marked(tab.notes[d], ids)
           t == Announce([tab EXCEPT !.notes[d] = N])
           v == IF all THEN t ELSE [t EXCEPT !.path = "leads"]
<1>2. /\ Announced(v) /\ mixed' = mixed /\ strayed' = strayed
      /\ read' = [read EXCEPT ![d] = @ \cup Rows({n \in tab.notes[d] : n.id \in ids})]
  BY <1>1 DEF MarkRead
<1>3. Ready(tab, tab, mixed) /\ mixed \in BOOLEAN /\ tab.notes \in [Dealership -> SUBSET Note]
  BY ReadyAtFirst DEF WebInv, TabOK, Typed
<1>4. d \in Dealership /\ tab.notes[d] \in SUBSET Note
  BY <1>3 DEF MarkRead, WebInv, TabOK, Typed
<1> HIDE DEF ids
<1>5. N \in SUBSET Note
  BY <1>4, MarkedType
<1> HIDE DEF N
<1>6. /\ Ready(tab, t, mixed) /\ Keeps(tab, t, {"notes", "bell"})
      /\ t.notes = [tab.notes EXCEPT ![d] = N]
      /\ t.selected # NULL => t.bell = t.notes[t.selected]
  BY <1>3, <1>4, <1>5, AnnounceReady
<1> HIDE DEF t
<1>7. t.path = tab.path
  BY <1>6 DEF Keeps, TabFields
<1>8. /\ Ready(tab, v, mixed) /\ v.notes = t.notes
      /\ v.selected = t.selected /\ v.bell = t.bell
  <2>1. CASE all
    BY <2>1, <1>6
  <2>2. CASE ~all
    <3>1. Ready(tab, [t EXCEPT !.path = "leads"], mixed) /\ Keeps(t, [t EXCEPT !.path = "leads"], {"path"})
      BY <1>6, <1>7, PathReady
    <3> QED
      BY <3>1, <2>2 DEF Keeps, TabFields
  <2> QED
    BY <2>1, <2>2
<1> HIDE DEF v
<1>9. v.selected # NULL => v.bell = v.notes[v.selected]
  BY <1>6, <1>8
<1>10. /\ TabOK(tab', mixed') /\ BellIsSelected' /\ mixed' \in BOOLEAN
       /\ lateBell' \in BOOLEAN /\ tab'.notes = v.notes
  BY <1>2, <1>8, <1>9, AnnouncedStep
<1>11. tab'.notes = [tab.notes EXCEPT ![d] = N]
  BY <1>6, <1>8, <1>10
<1> HIDE DEF d
<1>12. NotesStep
  BY <1>2, <1>4, <1>11 DEF NotesStep, N
<1> QED
  BY <1>2, <1>10, <1>12 DEF StepOK

LEMMA AnswerFacts ==
  ASSUME WebInv, NEW kind, NEW c \in Answered(kind)
  PROVE  /\ CallOK(c) /\ c.kind = kind /\ c.user \in User \cup {NULL} /\ c \in BagToSet(tab.calls)
         /\ Typed(Done(tab, c)) /\ Keeps(tab, Done(tab, c), {"calls"})
         /\ BagToSet(Done(tab, c).calls) \subseteq BagToSet(tab.calls)
<1>1. c \in BagToSet(tab.calls) /\ c.kind = kind /\ CallOK(c) /\ Typed(tab)
  BY DEF Answered, WebInv, TabOK, Typed
<1>2. c.user \in User \cup {NULL}
  BY <1>1 DEF CallOK, CallType
<1> QED
  BY <1>1, <1>2, DoneFacts

LEMMA AnswerReady ==
  ASSUME WebInv, NEW kind, NEW c \in Answered(kind), NEW my, mixed => my
  PROVE  TabOK(tab, my) /\ Ready(tab, Done(tab, c), my)
<1> DEFINE t == Done(tab, c)
<1>1. TabOK(tab, my)
  BY MixedMore DEF WebInv
<1>2. /\ Typed(t) /\ Keeps(tab, t, {"calls"})
      /\ BagToSet(t.calls) \subseteq BagToSet(tab.calls)
  BY AnswerFacts
<1> HIDE DEF t
<1>3. Ready(tab, tab, my) /\ Keeps(tab, t, {"bell", "notes", "calls"})
  BY <1>1, <1>2, ReadyAtFirst DEF Keeps
<1>4. Ready(tab, t, my)
  BY <1>2, <1>3, ReadyMore
<1> QED
  BY <1>1, <1>4 DEF t

\* The answer is a failure, and nothing is done about it.
LEMMA DoneStep ==
  ASSUME WebInv, NEW kind, NEW c \in Answered(kind), Step(Done(tab, c)),
         mixed => mixed', mixed' \in BOOLEAN, strayed' = strayed, read' = read
  PROVE  StepOK
<1> DEFINE t == Done(tab, c)
<1>1. tab' = Render(tab, t) /\ lateBell' = (lateBell /\ tab'.selected = tab.selected)
  BY DEF Step
<1>2. Keeps(tab, t, {"calls"}) /\ Ready(tab, t, mixed')
  BY AnswerFacts, AnswerReady
<1> HIDE DEF t
<1> QED
  BY <1>1, <1>2, PlainStep

LEMMA MeAnsweredOK ==
  ASSUME WebInv, MeAnswered
  PROVE  StepOK
<1>1. PICK c \in Answered("me"), ok \in BOOLEAN :
        /\ ok => c.user # NULL
        /\ Step(IF ok THEN Choose([Done(tab, c) EXCEPT !.me = c.user], c.user)
                ELSE [ClearAuth(Done(tab, c)) EXCEPT !.path = "login"])
        /\ mixed' = (mixed \/ c.user # tab.token)
        /\ UNCHANGED <<present, acts, strayed, read>>
  BY DEF MeAnswered
<1> DEFINE t == Done(tab, c)
<1>2. mixed' \in BOOLEAN /\ strayed' = strayed /\ read' = read
  BY <1>1 DEF WebInv
<1>2a. (mixed => mixed') /\ (~mixed' => c.user = tab.token)
  BY <1>1 DEF WebInv
<1>3. /\ c.user \in User \cup {NULL} /\ Typed(t) /\ Keeps(tab, t, {"calls"})
      /\ BagToSet(t.calls) \subseteq BagToSet(tab.calls) /\ TabOK(tab, mixed')
  BY <1>2a, AnswerFacts, AnswerReady
<1>4. CASE ok
  <2> DEFINE v == [t EXCEPT !.me = c.user]
             u == Choose(v, c.user)
  <2>1. tab' = Render(tab, u) /\ lateBell' = (lateBell /\ tab'.selected = tab.selected)
    BY <1>1, <1>4 DEF Step
  <2>2. c.user \in User
    BY <1>1, <1>3, <1>4
  <2> HIDE DEF t
  <2>3. DOMAIN v = TabFields /\ Keeps(t, v, {"me"}) /\ v.me = c.user
    BY <1>3 DEF Typed, TabFields, Keeps
  <2> HIDE DEF v
  <2>4. Typed(v) /\ v.calls = t.calls
    BY <2>2, <2>3, <1>3 DEF Typed, Keeps, TabFields
  <2>5. Keeps(tab, v, {"me", "notes", "bell", "calls"}) /\ v.token = tab.token
    BY <2>3, <1>3 DEF Keeps, TabFields
  <2>6. Keeps(tab, v, {"me", "calls"})
    BY <2>3, <1>3 DEF Keeps, TabFields
  <2>7. Ready(tab, u, mixed') /\ Keeps(v, u, {"active", "selected", "page"})
    BY <2>2, <2>4, <2>5, <1>2a, <1>3, ChooseReady
  <2> HIDE DEF u
  <2>8. Keeps(tab, u, {"me", "calls", "active", "selected", "page"})
    BY <2>6, <2>7 DEF Keeps
  <2> QED
    BY <2>1, <2>7, <2>8, <1>2, PlainStep
<1>5. CASE ~ok
  <2> DEFINE u == [ClearAuth(t) EXCEPT !.path = "login"]
  <2>1. tab' = Render(tab, u) /\ lateBell' = (lateBell /\ tab'.selected = tab.selected)
    BY <1>1, <1>5 DEF Step
  <2> HIDE DEF t
  <2>2. Ready(tab, u, mixed') /\ Keeps(t, u, {"token", "active", "selected", "page", "path"})
    BY <1>3, LogoutReady
  <2> HIDE DEF u
  <2>3. Keeps(tab, u, {"calls", "token", "active", "selected", "page", "path"})
    BY <2>2, <1>3 DEF Keeps
  <2> QED
    BY <2>1, <2>2, <2>3, <1>2, PlainStep
<1> QED
  BY <1>4, <1>5

\* What an answer with the dealerships of its user does to the tab.
LEMMA ChooseFacts ==
  ASSUME WebInv, NEW kind, NEW c \in Answered(kind), c.user \in User,
         mixed => mixed', ~mixed' => c.user = tab.token
  PROVE  LET u == Choose(Done(tab, c), c.user) IN
         /\ Ready(tab, u, mixed') /\ Keeps(tab, u, {"calls", "active", "selected", "page"})
         /\ u.path = tab.path
<1> DEFINE t == Done(tab, c)
           u == Choose(t, c.user)
<1>1. /\ Typed(t) /\ Keeps(tab, t, {"calls"}) /\ BagToSet(t.calls) \subseteq BagToSet(tab.calls)
      /\ TabOK(tab, mixed')
  BY AnswerFacts, AnswerReady
<1> HIDE DEF t
<1>2. Keeps(tab, t, {"me", "notes", "bell", "calls"}) /\ t.token = tab.token
  BY <1>1 DEF Keeps, TabFields
<1>3. Ready(tab, u, mixed') /\ Keeps(t, u, {"active", "selected", "page"})
  BY <1>1, <1>2, ChooseReady
<1> HIDE DEF u
<1>4. Keeps(tab, u, {"calls", "active", "selected", "page"}) /\ u.path = tab.path
  BY <1>1, <1>3 DEF Keeps, TabFields
<1> QED
  BY <1>3, <1>4 DEF u, t

LEMMA DashboardAnsweredOK ==
  ASSUME WebInv, DashboardAnswered
  PROVE  StepOK
<1>1. PICK c \in Answered("dashboard") \cup Answered("gone"), ok \in BOOLEAN :
        LET t == Choose(Done(tab, c), c.user)
            loaded == IF t.active # NULL /\ t.page.sel # t.active
                      THEN Load([t EXCEPT !.page.sel = t.active]) ELSE t
        IN
        /\ ok => c.user # NULL
        /\ Step(IF ~ok THEN Done(tab, c) ELSE IF c.kind = "gone" THEN t ELSE loaded)
        /\ mixed' = (mixed \/ (ok /\ c.user # tab.token))
        /\ UNCHANGED <<present, acts, strayed, read>>
  BY DEF DashboardAnswered
<1>2. PICK kind \in {"dashboard", "gone"} : c \in Answered(kind)
  OBVIOUS
<1>3. mixed' \in BOOLEAN /\ strayed' = strayed /\ read' = read
  BY <1>1 DEF WebInv
<1>3a. (mixed => mixed') /\ (ok /\ ~mixed' => c.user = tab.token)
  BY <1>1 DEF WebInv
<1>4. CASE ~ok
  <2>1. Step(Done(tab, c))
    BY <1>1, <1>4
  <2> QED
    BY <2>1, <1>2, <1>3, <1>3a, DoneStep
<1>5. CASE ok
  <2> DEFINE t == Choose(Done(tab, c), c.user)
             p == [t.page EXCEPT !.sel = t.active]
             u == Load([t EXCEPT !.page = p])
             loaded == IF t.active # NULL /\ t.page.sel # t.active
                       THEN Load([t EXCEPT !.page.sel = t.active]) ELSE t
  <2>1. c.user \in User
    BY <1>1, <1>2, <1>5, AnswerFacts
  <2>2. /\ Ready(tab, t, mixed') /\ Keeps(tab, t, {"calls", "active", "selected", "page"})
        /\ t.path = tab.path
    BY <2>1, <1>2, <1>3a, <1>5, ChooseFacts
  <2>3a. Step(IF ~ok THEN Done(tab, c) ELSE IF c.kind = "gone" THEN t ELSE loaded)
    BY <1>1
  <2> HIDE DEF t
  <2>3b. loaded = t \/ loaded = u
    OBVIOUS
  <2> HIDE DEF loaded
  <2>3. Step(t) \/ (c.kind # "gone" /\ Step(u))
    BY <2>3a, <2>3b, <1>5
  <2>4. CASE Step(t)
    BY <2>2, <2>4, <1>3, PlainStep DEF Step
  <2>5. CASE c.kind # "gone" /\ Step(u)
    <3>1. c.kind = "dashboard" /\ c \in BagToSet(tab.calls)
      BY <2>5, <1>2 DEF Answered
    <3>2. t.path # "login"
      BY <3>1, <2>2 DEF WebInv, TabOK, PageOK, Attended, OfPage
    <3>3. t.page \in PageType /\ t.active \in Dealership \cup {NULL}
      BY <2>2 DEF Ready, Typed
    <3>4. p \in PageType /\ p.loads = t.page.loads /\ p.shown = t.page.shown
      BY <3>3 DEF PageType
    <3> HIDE DEF p
    <3>5. Ready(tab, u, mixed') /\ Keeps(t, u, {"page"})
      BY <2>2, <3>2, <3>4, LoadReady
    <3> HIDE DEF u
    <3>6. Keeps(tab, u, {"calls", "active", "selected", "page"})
      BY <3>5, <2>2 DEF Keeps
    <3> QED
      BY <2>5, <3>5, <3>6, <1>3, PlainStep DEF Step
  <2> QED
    BY <2>3, <2>4, <2>5
<1> QED
  BY <1>4, <1>5

LEMMA SendReady ==
  ASSUME NEW old, NEW mx, NEW t, Ready(old, t, mx), NEW c, CallOK(c), OfPage(c, t.path)
  PROVE  Ready(old, Send(t, c), mx) /\ Keeps(t, Send(t, c), {"calls"})
<1> DEFINE u == Send(t, c)
<1>1. Typed(u) /\ Keeps(t, u, {"calls"}) /\ BagToSet(u.calls) = BagToSet(t.calls) \cup {c}
  BY SendFacts DEF Ready
<1> HIDE DEF u
<1>2. Keeps(t, u, {"bell", "notes", "calls"})
  BY <1>1 DEF Keeps
<1>3. Ready(old, u, mx)
  BY <1>1, <1>2, ReadyMore
<1> QED
  BY <1>1, <1>3 DEF u

LEMMA LoginAnsweredOK ==
  ASSUME WebInv, LoginAnswered
  PROVE  StepOK
<1>1. PICK c \in Answered("login"), ok \in BOOLEAN :
        /\ Step(IF ok THEN Send([Done(tab, c) EXCEPT !.token = c.user],
                                Call("first", c.user, NULL, NULL))
                ELSE Done(tab, c))
        /\ mixed' = (mixed \/ (ok /\ tab.token \notin {NULL, c.user}))
        /\ UNCHANGED <<present, acts, strayed, read>>
  BY DEF LoginAnswered
<1>2. mixed' \in BOOLEAN /\ strayed' = strayed /\ read' = read
  BY <1>1 DEF WebInv
<1>3. (mixed => mixed') /\ (ok /\ tab.token \notin {NULL, c.user} => mixed')
  BY <1>1 DEF WebInv
<1>4. CASE ~ok
  <2>1. Step(Done(tab, c))
    BY <1>1, <1>4
  <2> QED
    BY <2>1, <1>2, <1>3, DoneStep
<1>5. CASE ok
  <2> DEFINE t == Done(tab, c)
             v == [t EXCEPT !.token = c.user]
             call == Call("first", c.user, NULL, NULL)
             u == Send(v, call)
  <2>1. Step(u)
    BY <1>1, <1>5
  <2>2. /\ CallOK(c) /\ c.kind = "login" /\ Typed(t) /\ Keeps(tab, t, {"calls"})
        /\ BagToSet(t.calls) \subseteq BagToSet(tab.calls)
    BY AnswerFacts
  <2>3. c.user \in User /\ TabOK(tab, mixed)
    BY <2>2 DEF CallOK, WebInv
  <2>4. CallOK(call) /\ OfPage(call, v.path)
    BY <2>3, CallFacts DEF Call, OfPage
  <2> HIDE DEF t, call
  <2>5. Ready(tab, v, mixed') /\ Keeps(t, v, {"token"})
    BY <2>2, <2>3, <1>3, <1>5, TokenReady
  <2> HIDE DEF v
  <2>6. Ready(tab, u, mixed') /\ Keeps(v, u, {"calls"})
    BY <2>4, <2>5, SendReady
  <2> HIDE DEF u
  <2>7. Keeps(tab, u, {"token", "calls"})
    BY <2>2, <2>5, <2>6 DEF Keeps
  <2> QED
    BY <2>1, <2>6, <2>7, <1>2, PlainStep DEF Step
<1> QED
  BY <1>4, <1>5

LEMMA FirstAnsweredOK ==
  ASSUME WebInv, FirstAnswered
  PROVE  StepOK
<1>1. PICK c \in Answered("first"), ok \in BOOLEAN :
        /\ Step(IF ok THEN [Choose(Done(tab, c), c.user) EXCEPT !.path = "dashboard"]
                ELSE Done(tab, c))
        /\ mixed' = (mixed \/ (ok /\ c.user # tab.token))
        /\ UNCHANGED <<present, acts, strayed, read>>
  BY DEF FirstAnswered
<1>2. mixed' \in BOOLEAN /\ strayed' = strayed /\ read' = read
  BY <1>1 DEF WebInv
<1>3. (mixed => mixed') /\ (ok /\ ~mixed' => c.user = tab.token)
  BY <1>1 DEF WebInv
<1>4. CASE ~ok
  <2>1. Step(Done(tab, c))
    BY <1>1, <1>4
  <2> QED
    BY <2>1, <1>2, <1>3, DoneStep
<1>5. CASE ok
  <2> DEFINE t == Choose(Done(tab, c), c.user)
             u == [t EXCEPT !.path = "dashboard"]
  <2>1. Step(u)
    BY <1>1, <1>5
  <2>2. CallOK(c) /\ c.kind = "first"
    BY AnswerFacts
  <2>3. c.user \in User
    BY <2>2 DEF CallOK
  <2>4. /\ Ready(tab, t, mixed') /\ Keeps(tab, t, {"calls", "active", "selected", "page"})
        /\ t.path = tab.path
    BY <2>3, <1>3, <1>5, ChooseFacts
  <2> HIDE DEF t
  <2>5. Ready(tab, u, mixed') /\ Keeps(t, u, {"path"})
    BY <2>4, PathReady
  <2> HIDE DEF u
  <2>6. Keeps(tab, u, {"calls", "active", "selected", "page", "path"})
    BY <2>4, <2>5 DEF Keeps
  <2> QED
    BY <2>1, <2>5, <2>6, <1>2, PlainStep DEF Step
<1> QED
  BY <1>4, <1>5

LEMMA InvitationAnsweredOK ==
  ASSUME WebInv, InvitationAnswered
  PROVE  StepOK
<1>1. PICK c \in Answered("accept"), ok \in BOOLEAN :
        /\ Step(IF ok THEN [Done(tab, c) EXCEPT !.token = c.user, !.path = "dashboard"]
                ELSE Done(tab, c))
        /\ mixed' = (mixed \/ (ok /\ tab.token \notin {NULL, c.user}))
        /\ UNCHANGED <<present, acts, strayed, read>>
  BY DEF InvitationAnswered
<1>2. mixed' \in BOOLEAN /\ strayed' = strayed /\ read' = read
  BY <1>1 DEF WebInv
<1>3. (mixed => mixed') /\ (ok /\ tab.token \notin {NULL, c.user} => mixed')
  BY <1>1 DEF WebInv
<1>4. CASE ~ok
  <2>1. Step(Done(tab, c))
    BY <1>1, <1>4
  <2> QED
    BY <2>1, <1>2, <1>3, DoneStep
<1>5. CASE ok
  <2> DEFINE t == Done(tab, c)
             v == [t EXCEPT !.token = c.user]
             u == [v EXCEPT !.path = "dashboard"]
  <2>1. Step(u)
    BY <1>1, <1>5
  <2>2. /\ CallOK(c) /\ c.kind = "accept" /\ Typed(t) /\ Keeps(tab, t, {"calls"})
        /\ BagToSet(t.calls) \subseteq BagToSet(tab.calls)
    BY AnswerFacts
  <2>3. c.user \in User /\ TabOK(tab, mixed)
    BY <2>2 DEF CallOK, WebInv
  <2> HIDE DEF t
  <2>4. Ready(tab, v, mixed') /\ Keeps(t, v, {"token"})
    BY <2>2, <2>3, <1>3, <1>5, TokenReady
  <2> HIDE DEF v
  <2>5. v.path = tab.path
    BY <2>2, <2>4 DEF Keeps, TabFields
  <2>6. Ready(tab, u, mixed') /\ Keeps(v, u, {"path"})
    BY <2>4, <2>5, PathReady
  <2> HIDE DEF u
  <2>7. Keeps(tab, u, {"calls", "token", "path"})
    BY <2>2, <2>4, <2>6 DEF Keeps
  <2> QED
    BY <2>1, <2>6, <2>7, <1>2, PlainStep DEF Step
<1> QED
  BY <1>4, <1>5

LEMMA RemoveAsk ==
  ASSUME NEW s \in Seq(Ask), NEW i \in DOMAIN s
  PROVE  RemoveAt(s, i) \in Seq(Ask) /\ ToSet(RemoveAt(s, i)) \subseteq ToSet(s) /\ s[i] \in Ask
<1> DEFINE a == SubSeq(s, 1, i - 1)
           b == SubSeq(s, i + 1, Len(s))
<1>1. i \in 1 .. Len(s) /\ Len(s) \in Nat /\ s[i] \in Ask /\ \A k \in 1 .. Len(s) : s[k] \in Ask
  OBVIOUS
<1>2. a \in Seq(Ask) /\ Len(a) = i - 1 /\ \A k \in 1 .. i - 1 : a[k] = s[k]
  BY <1>1
<1>3. /\ b \in Seq(Ask) /\ Len(b) = Len(s) - i
      /\ \A k \in 1 .. Len(s) - i : b[k] = s[i + k]
  BY <1>1
<1> HIDE DEF a, b
<1>4. /\ a \o b \in Seq(Ask) /\ Len(a \o b) = Len(a) + Len(b)
      /\ \A k \in 1 .. Len(a) + Len(b) : (a \o b)[k] = IF k <= Len(a) THEN a[k] ELSE b[k - Len(a)]
  BY <1>2, <1>3, SMTT(40)
<1>5. ASSUME NEW k \in 1 .. Len(a) + Len(b) PROVE \E j \in 1 .. Len(s) : (a \o b)[k] = s[j]
  <2>0. /\ Len(a) = i - 1 /\ Len(b) = Len(s) - i /\ i \in 1 .. Len(s) /\ Len(s) \in Nat
        /\ k \in 1 .. Len(a) + Len(b)
    BY <1>1, <1>2, <1>3
  <2>1. CASE k <= Len(a)
    <3>1. k \in 1 .. i - 1 /\ k \in 1 .. Len(s)
      BY <2>1, <2>0
    <3>2. (a \o b)[k] = a[k]
      BY <2>1, <1>4
    <3> QED
      BY <3>1, <3>2, <1>2
  <2>2. CASE ~(k <= Len(a))
    <3>1. k - Len(a) \in 1 .. Len(s) - i /\ i + (k - Len(a)) \in 1 .. Len(s)
      <4>1. k \in Int /\ Len(s) \in Int /\ i \in Int /\ Len(a) \in Int /\ Len(b) \in Int
        BY <2>0
      <4>2. k >= i /\ k <= Len(s) - 1 /\ i >= 1
        BY <2>0, <2>2, <4>1, SMTT(40)
      <4>3. k - Len(a) >= 1 /\ k - Len(a) <= Len(s) - i
        BY <2>0, <4>1, <4>2, SMTT(40)
      <4> QED
        BY <4>1, <4>2, <4>3
    <3>2. (a \o b)[k] = b[k - Len(a)]
      BY <2>2, <1>4
    <3> QED
      BY <3>1, <3>2, <1>3
  <2> QED
    BY <2>1, <2>2
<1>6. DOMAIN s = 1 .. Len(s) /\ DOMAIN (a \o b) = 1 .. Len(a) + Len(b)
  BY <1>4
<1>7. ToSet(a \o b) \subseteq ToSet(s)
  BY <1>5, <1>6 DEF ToSet
<1> QED
  BY <1>1, <1>4, <1>7 DEF RemoveAt, a, b

LEMMA PageAnsweredOK ==
  ASSUME WebInv, PageAnswered
  PROVE  StepOK
<1>1. PICK i \in DOMAIN tab.page.loads, ok \in BOOLEAN :
        /\ Step([tab EXCEPT !.page = [tab.page EXCEPT
             !.loads = RemoveAt(tab.page.loads, i),
             !.shown = IF ok THEN [user |-> tab.page.loads[i].user, of |-> tab.page.loads[i].of,
                                   filter |-> tab.page.loads[i].filter]
                       ELSE NULL]])
        /\ NoHistory
  BY DEF PageAnswered
<1> DEFINE a == tab.page.loads[i]
           s == RemoveAt(tab.page.loads, i)
           shown == IF ok THEN [user |-> a.user, of |-> a.of, filter |-> a.filter] ELSE NULL
           p == [tab.page EXCEPT !.loads = s, !.shown = shown]
           u == [tab EXCEPT !.page = p]
<1>2. Step(u)
  BY <1>1
<1>3. tab.page \in PageType /\ tab.page.loads \in Seq(Ask) /\ TabOK(tab, mixed)
  BY DEF WebInv, TabOK, Typed, PageType
<1>4. s \in Seq(Ask) /\ ToSet(s) \subseteq ToSet(tab.page.loads) /\ a \in Ask
  BY <1>3, RemoveAsk
<1>5. a \in ToSet(tab.page.loads)
  BY DEF ToSet
<1> HIDE DEF a, s
<1>6. [user |-> a.user, of |-> a.of, filter |-> a.filter] = a
  BY <1>4 DEF Ask
<1>7. shown \in {a, NULL}
  BY <1>6
<1> HIDE DEF shown
<1>8. p \in PageType /\ p.loads = s /\ p.shown = shown
  BY <1>3, <1>4, <1>7 DEF PageType
<1> HIDE DEF p
<1>9. ToSet(p.loads) \cup ({p.shown} \ {NULL}) \subseteq Asks(tab)
  BY <1>4, <1>5, <1>7, <1>8 DEF Asks
<1>10. Ready(tab, u, mixed) /\ Keeps(tab, u, {"page"})
  BY <1>3, <1>8, <1>9, PageReady
<1> HIDE DEF u
<1>11. /\ mixed' = mixed /\ mixed \in BOOLEAN /\ strayed' = strayed /\ read' = read
  BY <1>1 DEF NoHistory, WebInv
<1> QED
  BY <1>2, <1>10, <1>11, PlainStep DEF Step

LEMMA ListedFacts ==
  ASSUME WebInv, NEW kind, NEW d, NEW told \in SUBSET Listed(kind, d), NEW str
  PROVE  Tells(told, d, str)
<1>1. told \subseteq present /\ \A r \in told : Home[r.id] = d
  BY DEF Listed
<1>2. IsFiniteSet(told)
  BY <1>1, FS_Subset DEF WebInv
<1> QED
  BY <1>1, <1>2 DEF WebInv, Tells, Single

\* A bell that is set for a dealership is right for that one.
LEMMA RungStep ==
  ASSUME WebInv, NEW t, NEW d, Rung(t, d), Ready(tab, t, mixed), t.selected = tab.selected,
         NoHistory
  PROVE  /\ TabOK(tab', mixed') /\ BellIsSelected' /\ mixed' \in BOOLEAN
         /\ lateBell' \in BOOLEAN /\ tab'.notes = t.notes /\ strayed \subseteq strayed'
         /\ read' = read
<1> DEFINE v == [t EXCEPT !.bell = t.notes[d]]
<1>1. /\ tab' = Render(tab, v) /\ lateBell' = (d # tab.selected)
      /\ mixed' = mixed /\ mixed \in BOOLEAN /\ strayed' = strayed /\ read' = read
  BY DEF Rung, NoHistory, WebInv
<1>2. /\ DOMAIN v = TabFields /\ Keeps(t, v, {"bell"}) /\ v.bell = t.notes[d]
  BY DEF Ready, Typed, TabFields, Keeps
<1> HIDE DEF v
<1>3. Typed(v) /\ v.calls = t.calls /\ v.notes = t.notes /\ v.selected = tab.selected
  BY <1>2 DEF Ready, Typed, Keeps, TabFields
<1>4. Keeps(t, v, {"bell", "notes", "calls"})
  BY <1>2 DEF Keeps
<1>5. Ready(tab, v, mixed)
  BY <1>3, <1>4, ReadyMore
<1>6. /\ TabOK(tab', mixed) /\ Keeps(v, tab', {"calls", "page", "bell"})
      /\ tab'.bell = IF v.selected # tab.selected /\ v.selected # NULL
                     THEN v.notes[v.selected] ELSE v.bell
  BY <1>1, <1>5, RenderFacts
<1>7. tab'.notes = t.notes /\ tab'.selected = tab.selected /\ tab'.bell = t.notes[d]
  BY <1>2, <1>3, <1>6 DEF Keeps, TabFields
<1>8. BellIsSelected'
  BY <1>1, <1>7 DEF BellIsSelected
<1> QED
  BY <1>1, <1>6, <1>7, <1>8

LEMMA BellAnsweredOK ==
  ASSUME WebInv, BellAnswered
  PROVE  StepOK
<1>1. PICK c \in Answered("bell"), ok \in BOOLEAN :
        /\ IF ok THEN \E since \in Time :
             \E u \in Ingest(Done(tab, c), Filed(c), Recent(Listed("lead", c.of), since)) :
               \E v \in Ingest(u, Filed(c), Recent(Listed("appointment", c.of), since)) :
                 Announced(Send(v, Call("messages", tab.token, c.d, tab.active)))
           ELSE Rung(Done(tab, c), c.d)
        /\ NoHistory
  BY DEF BellAnswered
<1> DEFINE t == Done(tab, c)
<1>2. /\ mixed' = mixed /\ mixed \in BOOLEAN /\ strayed' = strayed /\ read' = read
  BY <1>1 DEF NoHistory, WebInv
<1>3. CallOK(c) /\ c.kind = "bell" /\ Keeps(tab, t, {"calls"}) /\ Ready(tab, t, mixed)
  BY AnswerFacts, AnswerReady
<1>4. c.d \in Dealership /\ c.of = c.d
  BY <1>3 DEF CallOK
<1>5. /\ t.selected = tab.selected /\ t.notes = tab.notes
  BY <1>3 DEF Keeps, TabFields
<1>6. CASE ~ok
  <2>1. Rung(t, c.d)
    BY <1>1, <1>6
  <2> HIDE DEF t
  <2> QED
    BY <2>1, <1>1, <1>3, <1>5, RungStep DEF StepOK, NotesStep
<1>7. CASE ok
  <2> DEFINE call == Call("messages", tab.token, c.d, tab.active)
  <2> HIDE DEF call
  <2>1. PICK since \in Time :
          \E u \in Ingest(t, c.d, Recent(Listed("lead", c.of), since)) :
            \E v \in Ingest(u, c.d, Recent(Listed("appointment", c.of), since)) :
              Announced(Send(v, call))
    BY <1>1, <1>7 DEF Filed, call
  <2> HIDE DEF t
  <2> DEFINE leads == Recent(Listed("lead", c.of), since)
             visits == Recent(Listed("appointment", c.of), since)
  <2>2. leads \in SUBSET Listed("lead", c.d) /\ visits \in SUBSET Listed("appointment", c.d)
    BY <1>4 DEF Recent
  <2>3. PICK u \in Ingest(t, c.d, leads) : \E v \in Ingest(u, c.d, visits) : Announced(Send(v, call))
    BY <2>1
  <2>4. PICK v \in Ingest(u, c.d, visits) : Announced(Send(v, call))
    BY <2>3
  <2> HIDE DEF leads, visits
  <2>5. Tells(leads, c.d, strayed') /\ Tells(visits, c.d, strayed')
    BY <2>2, ListedFacts
  <2>6. tab.token \in User \cup {NULL} /\ tab.active \in Dealership \cup {NULL}
    BY DEF WebInv, TabOK, Typed
  <2>7. CallOK(call) /\ OfPage(call, v.path)
    BY <2>6, <1>4, CallFacts DEF Call, OfPage, call
  <2>8. /\ Ready(tab, u, mixed)
        /\ \E kept \in Upsert(t.notes[c.d], leads) : u.notes = [t.notes EXCEPT ![c.d] = kept]
    <3>1. leads \in SUBSET Row
      BY <2>5 DEF Tells
    <3> QED
      BY <3>1, <1>3, <1>4, <2>3, IngestReady
  <2>9. /\ Ready(tab, v, mixed)
        /\ \E kept \in Upsert(u.notes[c.d], visits) : v.notes = [u.notes EXCEPT ![c.d] = kept]
        /\ v.selected # NULL => v.bell = v.notes[v.selected]
    <3>1. visits \in SUBSET Row /\ Ready(tab, u, mixed)
      BY <2>5, <2>8 DEF Tells
    <3> QED
      BY <3>1, <1>4, <2>4, IngestReady
  <2> DEFINE w == Send(v, call)
  <2>10. Ready(tab, w, mixed) /\ Keeps(v, w, {"calls"}) /\ Announced(w)
    BY <2>4, <2>7, <2>9, SendReady
  <2> HIDE DEF w
  <2>11. w.notes = v.notes /\ (w.selected # NULL => w.bell = w.notes[w.selected])
    BY <2>9, <2>10 DEF Keeps, TabFields
  <2>12. /\ TabOK(tab', mixed') /\ BellIsSelected' /\ mixed' \in BOOLEAN
         /\ lateBell' \in BOOLEAN /\ tab'.notes = v.notes
    BY <2>10, <2>11, <1>2, AnnouncedStep
  <2>13. PICK mid \in Upsert(t.notes[c.d], leads) : u.notes = [t.notes EXCEPT ![c.d] = mid]
    BY <2>8
  <2>14. PICK kept \in Upsert(u.notes[c.d], visits) : v.notes = [u.notes EXCEPT ![c.d] = kept]
    BY <2>9
  <2>15. tab.notes \in [Dealership -> SUBSET Note]
    BY DEF WebInv, TabOK, Typed
  <2>16. /\ u.notes[c.d] = mid /\ tab'.notes = [tab.notes EXCEPT ![c.d] = kept]
    BY <2>12, <2>13, <2>14, <2>15, <1>4, <1>5
  <2>17. Refiled(tab.notes[c.d], mid, c.d, strayed') /\ Refiled(mid, kept, c.d, strayed')
    BY <2>5, <2>13, <2>14, <2>16, <1>5 DEF Refiled
  <2>18. NotesStep
    BY <2>16, <2>17, <1>2, <1>4 DEF NotesStep
  <2> QED
    BY <2>12, <2>18, <1>2 DEF StepOK
<1> QED
  BY <1>6, <1>7

LEMMA MessagesAnsweredOK ==
  ASSUME WebInv, MessagesAnswered
  PROVE  StepOK
<1>1. PICK c \in Answered("messages") :
        LET sent == IF c.of = c.d /\ May(c.user, c.of) THEN Listed("message", c.d) ELSE {} IN
        /\ \E told \in SUBSET sent :
             \E t \in Ingest(Done(tab, c), Filed(c), told) : Rung(t, c.d)
        /\ NoHistory
  BY DEF MessagesAnswered
<1> DEFINE t == Done(tab, c)
<1>2. PICK told \in SUBSET Listed("message", c.d) : \E u \in Ingest(t, c.d, told) : Rung(u, c.d)
  BY <1>1 DEF Filed
<1>3. CallOK(c) /\ c.kind = "messages" /\ Keeps(tab, t, {"calls"}) /\ Ready(tab, t, mixed)
  BY AnswerFacts, AnswerReady DEF WebInv
<1>4. c.d \in Dealership
  BY <1>3 DEF CallOK
<1>5. /\ t.selected = tab.selected /\ t.notes = tab.notes
  BY <1>3 DEF Keeps, TabFields
<1>6. Tells(told, c.d, strayed')
  BY ListedFacts
<1> HIDE DEF t
<1>7. PICK u \in Ingest(t, c.d, told) : Rung(u, c.d)
  BY <1>2
<1>8. /\ Ready(tab, u, mixed) /\ Keeps(t, u, {"notes", "bell"})
      /\ \E kept \in Upsert(t.notes[c.d], told) : u.notes = [t.notes EXCEPT ![c.d] = kept]
  <2>1. told \in SUBSET Row
    BY <1>6 DEF Tells
  <2> QED
    BY <2>1, <1>3, <1>4, <1>7, IngestReady
<1>9. u.selected = tab.selected
  BY <1>5, <1>8 DEF Keeps, TabFields
<1>10. /\ TabOK(tab', mixed') /\ BellIsSelected' /\ mixed' \in BOOLEAN
       /\ lateBell' \in BOOLEAN /\ tab'.notes = u.notes /\ strayed \subseteq strayed'
       /\ read' = read
  BY <1>1, <1>7, <1>8, <1>9, RungStep
<1>11. PICK kept \in Upsert(tab.notes[c.d], told) : tab'.notes = [tab.notes EXCEPT ![c.d] = kept]
  BY <1>5, <1>8, <1>10
<1>12. Refiled(tab.notes[c.d], kept, c.d, strayed')
  BY <1>6, <1>11 DEF Refiled
<1>13. NotesStep
  BY <1>4, <1>10, <1>11, <1>12 DEF NotesStep
<1> QED
  BY <1>10, <1>13 DEF StepOK

\* The page of an import that has ended loads again, if it is still there.
LEMMA ReloadReady ==
  ASSUME WebInv, NEW c \in Answered("import") \cup Answered("adrift"),
         NEW t, Ready(tab, t, mixed), t.path = tab.path
  PROVE  LET u == IF c.kind = "import" THEN Load(t) ELSE t IN
         Ready(tab, u, mixed) /\ Keeps(t, u, {"page"})
<1>1. CASE c.kind = "import"
  <2>1. c \in BagToSet(tab.calls) /\ Attended(tab)
    BY DEF Answered, WebInv, TabOK, PageOK
  <2>2. t.path # "login"
    BY <2>1, <1>1 DEF Attended, OfPage
  <2> QED
    BY <2>2, <1>1, AskReady
<1>2. CASE c.kind # "import"
  BY <1>2 DEF Keeps
<1> QED
  BY <1>1, <1>2

LEMMA ImportAnsweredOK ==
  ASSUME WebInv, ImportAnswered
  PROVE  StepOK
<1>1. PICK c \in Answered("import") \cup Answered("adrift"), ok \in BOOLEAN :
        LET t == Done(tab, c)
            Reloaded(u) == IF c.kind = "import" THEN Load(u) ELSE u
        IN
        IF ok THEN
          \E e \in Entity, at \in Time :
            /\ Home[e] = c.of
            /\ IF tab.active = NULL THEN Step(Reloaded(t))
               ELSE \E u \in Ingest(t, tab.active, {[id |-> e, at |-> at]}) : Announced(Reloaded(u))
            /\ strayed' = IF tab.active = c.of THEN strayed ELSE strayed \cup {e}
            /\ UNCHANGED <<mixed, read>>
        ELSE Step(t) /\ NoHistory
  BY DEF ImportAnswered
<1> DEFINE t == Done(tab, c)
           Reloaded(u) == IF c.kind = "import" THEN Load(u) ELSE u
<1>2. mixed' = mixed /\ mixed \in BOOLEAN /\ read' = read
  BY <1>1 DEF NoHistory, WebInv
<1>3. Keeps(tab, t, {"calls"}) /\ Ready(tab, t, mixed)
  BY AnswerFacts, AnswerReady
<1>4. CASE ~ok
  <2>1. Step(t) /\ strayed' = strayed
    BY <1>1, <1>4 DEF NoHistory
  <2> QED
    BY <2>1, <1>2, DoneStep
<1>5. CASE ok
  <2>1. PICK e \in Entity, at \in Time :
          /\ Home[e] = c.of
          /\ IF tab.active = NULL THEN Step(Reloaded(t))
             ELSE \E u \in Ingest(t, tab.active, {[id |-> e, at |-> at]}) : Announced(Reloaded(u))
          /\ strayed' = IF tab.active = c.of THEN strayed ELSE strayed \cup {e}
    BY <1>1, <1>5
  <2> HIDE DEF t
  <2>2. strayed \subseteq strayed' /\ (tab.active # c.of => e \in strayed')
    BY <2>1
  <2>3. tab.active \in Dealership \cup {NULL} /\ lateBell \in BOOLEAN
    BY DEF WebInv, TabOK, Typed
  <2>4. /\ t.notes = tab.notes /\ t.bell = tab.bell /\ t.selected = tab.selected
        /\ t.path = tab.path
    BY <1>3 DEF Keeps, TabFields
  <2>5. CASE tab.active = NULL
    <3> DEFINE v == Reloaded(t)
    <3>1. tab' = Render(tab, v) /\ lateBell' = (lateBell /\ tab'.selected = tab.selected)
      BY <2>1, <2>5 DEF Step
    <3>2. Ready(tab, v, mixed) /\ Keeps(t, v, {"page"})
      BY <2>4, <1>3, ReloadReady
    <3> HIDE DEF v
    <3>3. /\ v.notes = tab.notes /\ v.bell = tab.bell /\ v.selected = tab.selected
      BY <3>2, <2>4 DEF Keeps, TabFields
    <3>4. v.selected = tab.selected /\ v.selected # NULL /\ ~lateBell => v.bell = v.notes[v.selected]
      BY <3>3 DEF WebInv, BellIsSelected
    <3>5. /\ TabOK(tab', mixed) /\ tab'.notes = v.notes /\ lateBell' \in BOOLEAN
          /\ tab'.selected # NULL /\ ~lateBell' => tab'.bell = tab'.notes[tab'.selected]
      BY <3>1, <3>2, <3>4, <2>3, StepFacts
    <3> QED
      BY <3>3, <3>5, <2>2, <1>2 DEF StepOK, NotesStep, BellIsSelected
  <2>6. CASE tab.active # NULL
    <3> DEFINE d == tab.active
               row == [id |-> e, at |-> at]
    <3>1. PICK u \in Ingest(t, d, {row}) : Announced(Reloaded(u))
      BY <2>1, <2>6
    <3>2. d \in Dealership
      BY <2>3, <2>6
    <3>3. Tells({row}, d, strayed')
      <4>1. row \in Row /\ row.id = e
        BY WebAssumption DEF Row
      <4>2. IsFiniteSet({row}) /\ Home[e] = c.of
        BY <2>1, FS_Singleton
      <4> HIDE DEF row
      <4> QED
        BY <4>1, <4>2, <2>2 DEF Tells, Single
    <3> HIDE DEF row, d
    <3>4. /\ Ready(tab, u, mixed) /\ Keeps(t, u, {"notes", "bell"})
          /\ \E kept \in Upsert(t.notes[d], {row}) : u.notes = [t.notes EXCEPT ![d] = kept]
          /\ u.selected # NULL => u.bell = u.notes[u.selected]
      <4>1. {row} \in SUBSET Row
        BY <3>3 DEF Tells
      <4> QED
        BY <4>1, <1>3, <3>2, IngestReady
    <3>5. u.path = tab.path
      BY <3>4, <2>4 DEF Keeps, TabFields
    <3> DEFINE v == Reloaded(u)
    <3>6. Ready(tab, v, mixed) /\ Keeps(u, v, {"page"}) /\ Announced(v)
      BY <3>1, <3>4, <3>5, ReloadReady
    <3> HIDE DEF v
    <3>7. v.notes = u.notes /\ (v.selected # NULL => v.bell = v.notes[v.selected])
      BY <3>4, <3>6 DEF Keeps, TabFields
    <3>8. /\ TabOK(tab', mixed') /\ BellIsSelected' /\ mixed' \in BOOLEAN
          /\ lateBell' \in BOOLEAN /\ tab'.notes = u.notes
      BY <3>6, <3>7, <1>2, AnnouncedStep
    <3>9. PICK kept \in Upsert(tab.notes[d], {row}) : tab'.notes = [tab.notes EXCEPT ![d] = kept]
      BY <3>4, <3>8, <2>4
    <3>10. Refiled(tab.notes[d], kept, d, strayed')
      BY <3>3, <3>9 DEF Refiled
    <3>11. NotesStep
      BY <3>2, <3>9, <3>10, <1>2 DEF NotesStep
    <3> QED
      BY <3>8, <3>11, <2>2 DEF StepOK
  <2> QED
    BY <2>5, <2>6
<1> QED
  BY <1>4, <1>5

\* Only what happens at a dealership and what is imported is new at the server,
\* and an appointment that is updated keeps its id.
LEMMA PresentOK ==
  ASSUME WebInv, Next
  PROVE  present' \subseteq Row /\ IsFiniteSet(present') /\ Single(present')
<1>1. present \subseteq Row /\ IsFiniteSet(present) /\ Single(present)
  BY DEF WebInv
<1>2. ASSUME NEW e \in Entity, NEW at \in Time, \A r \in present : r.id # e,
             present' = present \cup {[id |-> e, at |-> at]}
      PROVE  present' \subseteq Row /\ IsFiniteSet(present') /\ Single(present')
  <2>1. [id |-> e, at |-> at] \in Row
    BY WebAssumption DEF Row
  <2>2. IsFiniteSet(present')
    BY <1>1, <1>2, FS_AddElement
  <2>3. Single(present')
    BY <1>1, <1>2 DEF Single
  <2> QED
    BY <2>1, <2>2, <2>3, <1>1, <1>2
<1>3. ASSUME NEW r \in present, NEW at \in Time,
             present' = (present \ {r}) \cup {[r EXCEPT !.at = at]}
      PROVE  present' \subseteq Row /\ IsFiniteSet(present') /\ Single(present')
  <2> DEFINE s == [r EXCEPT !.at = at]
  <2>1. s \in Row /\ s.id = r.id
    BY <1>1, WebAssumption DEF Row
  <2> HIDE DEF s
  <2>2. present' = (present \ {r}) \cup {s}
    BY <1>3 DEF s
  <2>3. IsFiniteSet(present \ {r})
    BY <1>1, FS_Subset
  <2>4. IsFiniteSet(present')
    BY <2>2, <2>3, FS_AddElement
  <2>5. Single(present')
    BY <2>1, <2>2, <1>1 DEF Single
  <2> QED
    BY <2>1, <2>2, <2>4, <2>5, <1>1
<1>4. CASE present' = present
  BY <1>1, <1>4
<1>5. CASE Arrive
  BY <1>2, <1>5 DEF Arrive
<1>6. CASE Reschedule
  BY <1>3, <1>6 DEF Reschedule
<1>7. CASE SubmitLogin \/ SubmitInvitation \/ SubmitImport
  BY <1>4, <1>7 DEF SubmitLogin, SubmitInvitation, SubmitImport
<1>8. CASE Logout \/ Switch \/ Go
  BY <1>4, <1>8 DEF Logout, Switch, Go
<1>9. CASE Visit \/ ChangeFilter \/ MarkRead
  BY <1>4, <1>9 DEF Visit, ChangeFilter, MarkRead
<1>10. CASE MeAnswered \/ DashboardAnswered
  BY <1>4, <1>10 DEF MeAnswered, DashboardAnswered
<1>11. CASE LoginAnswered \/ FirstAnswered \/ InvitationAnswered
  BY <1>4, <1>11 DEF LoginAnswered, FirstAnswered, InvitationAnswered
<1>12. CASE BellAnswered \/ MessagesAnswered \/ PageAnswered
  BY <1>4, <1>12 DEF BellAnswered, MessagesAnswered, PageAnswered
<1>13. CASE ImportAnswered
  <2>1. \/ present' = present
        \/ \E e \in Entity, at \in Time :
             (\A r \in present : r.id # e) /\ present' = present \cup {[id |-> e, at |-> at]}
    BY <1>13 DEF ImportAnswered
  <2> QED
    BY <2>1, <1>2, <1>4
<1> QED
  BY <1>5, <1>6, <1>7, <1>8, <1>9, <1>10, <1>11, <1>12, <1>13 DEF Next, Answer

LEMMA WebStep ==
  ASSUME WebInv, Next
  PROVE  StepOK /\ WebInv'
<1>1. ASSUME Arrive \/ Reschedule \/ SubmitLogin \/ SubmitInvitation \/ SubmitImport PROVE StepOK
  BY <1>1, ArriveOK, SubmitOK
<1>2. ASSUME Logout \/ Switch \/ Go \/ Visit \/ ChangeFilter \/ MarkRead PROVE StepOK
  BY <1>2, LogoutOK, SwitchOK, GoOK, VisitOK, ChangeFilterOK, MarkReadOK
<1>3. ASSUME Answer PROVE StepOK
  BY <1>3, MeAnsweredOK, DashboardAnsweredOK, LoginAnsweredOK, FirstAnsweredOK,
     InvitationAnsweredOK, BellAnsweredOK, MessagesAnsweredOK, ImportAnsweredOK,
     PageAnsweredOK DEF Answer
<1>4. StepOK
  BY <1>1, <1>2, <1>3 DEF Next
<1>5. present' \subseteq Row /\ IsFiniteSet(present') /\ Single(present')
  BY PresentOK
<1>6. (present \subseteq Row)' /\ IsFiniteSet(present)' /\ Single(present)'
  BY <1>5 DEF Row, Single
<1>7. /\ TabOK(tab, mixed)' /\ BellIsSelected' /\ (mixed \in BOOLEAN)'
      /\ (lateBell \in BOOLEAN)'
  BY <1>4 DEF StepOK
<1> QED
  BY <1>4, <1>6, <1>7 DEF WebInv

LEMMA WebInit ==
  ASSUME Init
  PROVE  WebInv /\ tab.notes = [d \in Dealership |-> {}]
<1>1. /\ mixed = FALSE /\ lateBell = FALSE
      /\ present \subseteq Row /\ IsFiniteSet(present) /\ Single(present)
  <2>1. mixed = FALSE /\ lateBell = FALSE /\ present \in Before
    BY DEF Init
  <2>2. /\ present \subseteq [id : Entity, at : Time] /\ IsFiniteSet(present)
        /\ \A r, s \in present : r.id = s.id => r = s
    BY <2>1, WebAssumption
  <2>3. present \subseteq Row
    <3>1. Time \subseteq Nat
      BY WebAssumption
    <3>2. [id : Entity, at : Time] \subseteq [id : Entity, at : Nat]
      BY <3>1
    <3> QED
      BY <3>2, <2>2 DEF Row
  <2>4. Single(present)
    BY <2>2 DEF Single
  <2> QED
    BY <2>1, <2>2, <2>3, <2>4
<1>2. TabOK(tab, FALSE) /\ tab.selected = NULL /\ tab.notes = [e \in Dealership |-> {}]
  <2>1. CASE tab = Opened(NULL, NULL, "login")
    <3>1. NULL \in User \cup {NULL} /\ NULL \in Dealership \cup {NULL}
      OBVIOUS
    <3> QED
      BY <3>1, <2>1, OpenedOK
  <2>2. ASSUME NEW u \in Visitors, NEW p \in Path, tab = Opened(u, First(u), p)
        PROVE  TabOK(tab, FALSE) /\ tab.selected = NULL /\ tab.notes = [e \in Dealership |-> {}]
    <3>1. u \in User /\ u # NULL
      BY WebAssumption
    <3>2. /\ First(u) \in Dealership \cup {NULL}
          /\ First(u) # NULL => u # NULL /\ First(u) \in Mine(u)
      BY <3>1, FirstFacts
    <3> QED
      BY <3>1, <3>2, <2>2, OpenedOK, ZenonT(40)
  <2> QED
    BY <2>1, <2>2 DEF Init
<1> QED
  BY <1>1, <1>2 DEF WebInv, BellIsSelected

\* Whatever the user does and in whatever order the answers come, the tab keeps
\* together what belongs together.
THEOREM WebSafe == Spec => []WebInv
<1>1. Init => WebInv
  BY WebInit
<1>2. WebInv /\ [Next]_vars => WebInv'
  <2> SUFFICES ASSUME WebInv, [Next]_vars PROVE WebInv'
    OBVIOUS
  <2>1. CASE Next
    BY <2>1, WebStep
  <2>2. CASE UNCHANGED vars
    BY <2>2 DEF vars, WebInv, BellIsSelected
  <2> QED
    BY <2>1, <2>2
<1> QED
  BY <1>1, <1>2, PTL DEF Spec

-----------------------------------------------------------------------------
\* A page shows what was asked for the dealership in the select, and for the
\* user who is logged in unless sessions have met: app-shell.tsx gives main a
\* key, so that an answer for another dealership finds no page.
THEOREM ShownBelongs == Spec => []ShownIsSelected
<1>1. WebInv => ShownIsSelected
  <2> SUFFICES ASSUME WebInv, tab.page.shown # NULL
               PROVE  /\ tab.selected \in {NULL, tab.page.shown.of}
                      /\ mixed \/ tab.page.shown.user = tab.token
    BY DEF ShownIsSelected
  <2>1. tab.page.shown \in Asks(tab)
    BY DEF Asks
  <2> QED
    BY <2>1 DEF WebInv, TabOK, PageOK, Fresh
<1> QED
  BY <1>1, WebSafe, PTL

\* Nobody works in a dealership that another user left in localStorage, unless
\* sessions have met: clearAuth and setSelectedDealershipId.
THEOREM SelectedIsOurs == Spec => []SelectedIsMineUnlessMixed
<1>1. WebInv => SelectedIsMineUnlessMixed
  BY DEF WebInv, TabOK, Belongs, SelectedIsMineUnlessMixed
<1> QED
  BY <1>1, WebSafe, PTL

\* The bell shows what is kept for the dealership that is selected, unless an
\* answer for one that was left has set it last: emitUpdate and the shell.
THEOREM BellRings == Spec => []BellIsSelected
<1>1. WebInv => BellIsSelected
  BY DEF WebInv
<1> QED
  BY <1>1, WebSafe, PTL

LEMMA RefiledIds ==
  ASSUME NEW N, NEW d, NEW kept, Refiled(N, kept, d, strayed'), NEW n \in kept
  PROVE  n \in N \/ Home[n.id] = d \/ n.id \in strayed'
<1>1. PICK told : Tells(told, d, strayed') /\ kept \in Upsert(N, told)
  BY DEF Refiled
<1>2. n \in N \/ n \in New(N, told)
  BY <1>1 DEF Upsert, Cuts, kSubset
<1>3. n \in New(N, told) => \E r \in told : n.id = r.id
  BY DEF New
<1> QED
  BY <1>1, <1>2, <1>3 DEF Tells

\* What is kept for a dealership is its own, the notices of imports that ended
\* after a switch apart: the ingest functions of notifications.ts.
THEOREM NotesBelong == Spec => []NotesAreOwn
<1>1. Init => NotesAreOwn
  BY WebInit DEF NotesAreOwn
<1>2. WebInv /\ NotesAreOwn /\ [Next]_vars => NotesAreOwn'
  <2> SUFFICES ASSUME WebInv, NotesAreOwn, [Next]_vars,
                      NEW e \in Dealership, NEW n \in tab'.notes[e]
               PROVE  Home[n.id] = e \/ n.id \in strayed'
    BY DEF NotesAreOwn
  <2>1. CASE UNCHANGED vars
    BY <2>1 DEF vars, NotesAreOwn
  <2>2. CASE Next
    <3>1. NotesStep /\ strayed \subseteq strayed'
      BY <2>2, WebStep DEF StepOK
    <3>2. tab.notes \in [Dealership -> SUBSET Note]
      BY DEF WebInv, TabOK, Typed
    <3>3. ASSUME \E m \in tab.notes[e] : m.id = n.id
          PROVE  Home[n.id] = e \/ n.id \in strayed'
      BY <3>3, <3>1 DEF NotesAreOwn
    <3>4. CASE tab'.notes = tab.notes
      BY <3>3, <3>4
    <3>5. ASSUME NEW d \in Dealership, NEW mid, NEW kept,
                 Refiled(tab.notes[d], mid, d, strayed'),
                 kept = mid \/ Refiled(mid, kept, d, strayed'),
                 tab'.notes = [tab.notes EXCEPT ![d] = kept]
          PROVE  Home[n.id] = e \/ n.id \in strayed'
      <4>1. CASE d # e
        BY <4>1, <3>2, <3>3, <3>5
      <4>2. CASE d = e
        <5>1. n \in kept
          BY <4>2, <3>2, <3>5
        <5>2. n \in mid \/ Home[n.id] = d \/ n.id \in strayed'
          BY <5>1, <3>5, RefiledIds
        <5>3. n \in mid => n \in tab.notes[d] \/ Home[n.id] = d \/ n.id \in strayed'
          BY <3>5, RefiledIds
        <5> QED
          BY <5>2, <5>3, <4>2, <3>3
      <4> QED
        BY <4>1, <4>2
    <3>6. ASSUME NEW d \in Dealership, NEW ids,
                 tab'.notes = [tab.notes EXCEPT ![d] = Marked(tab.notes[d], ids)]
          PROVE  Home[n.id] = e \/ n.id \in strayed'
      <4>1. CASE d # e
        BY <4>1, <3>2, <3>3, <3>6
      <4>2. CASE d = e
        <5>1. n \in Marked(tab.notes[e], ids)
          BY <4>2, <3>2, <3>6
        <5>2. PICK m \in tab.notes[e] : n = [m EXCEPT !.read = @ \/ m.id \in ids]
          BY <5>1 DEF Marked
        <5>3. n.id = m.id
          BY <5>2, <3>2 DEF Note
        <5> QED
          BY <5>3, <3>3
      <4> QED
        BY <4>1, <4>2
    <3> QED
      BY <3>1, <3>4, <3>5, <3>6 DEF NotesStep
  <2> QED
    BY <2>1, <2>2
<1> QED
  BY <1>1, <1>2, WebSafe, PTL DEF Spec

-----------------------------------------------------------------------------
(* What was read, and what is told again *)

\* What is told and not in the list is added, each thing once.
LEMMA AddedFacts ==
  ASSUME NEW notes \in SUBSET Note, IsFiniteSet(notes), Single(notes),
         NEW told \in SUBSET Row, IsFiniteSet(told), Single(told)
  PROVE  LET all == notes \cup New(notes, told) IN
         all \in SUBSET Note /\ IsFiniteSet(all) /\ Single(all)
<1> DEFINE K == {s \in told : \A n \in notes : n.id # s.id}
           note(r) == [id |-> r.id, at |-> r.at, read |-> FALSE]
           f == [r \in K |-> note(r)]
           new == New(notes, told)
           all == notes \cup new
<1>1. K \subseteq told /\ IsFiniteSet(K)
  BY FS_Subset
<1>2. new = {note(r) : r \in K}
  BY DEF New
<1>3. \A r \in K : note(r) \in Note /\ note(r).id = r.id
  BY <1>1 DEF Row, Note
<1> HIDE DEF note
<1>4. IsFiniteSet(new)
  <2>1. f \in Surjection(K, new)
    BY <1>2 DEF Surjection
  <2> QED
    BY <2>1, <1>1, FS_Surjection
<1>5. IsFiniteSet(all)
  BY <1>4, FS_Union
<1>6. \A n \in new : \E r \in K : n = note(r) /\ n.id = r.id
  BY <1>2, <1>3
<1>7. all \in SUBSET Note
  BY <1>2, <1>3
<1> HIDE DEF new
<1>8. \A m \in notes, n \in new : m.id # n.id
  BY <1>6
<1>9. \A m, n \in new : m.id = n.id => m = n
  BY <1>1, <1>6 DEF Single
<1>10. Single(all)
  BY <1>8, <1>9 DEF Single
<1> QED
  BY <1>5, <1>7, <1>10 DEF new

\* What was read of a dealership is kept as read, or it is among the oldest of a
\* full list, whether it is told again or not.
Remembered(notes, rd) ==
  \A r \in rd :
    \/ \E n \in notes : n.id = r.id /\ n.at = r.at /\ n.read
    \/ Cardinality(notes) = MaxNotes /\ \A m \in notes : r.at <= m.at

NotesOK(notes, rd) ==
  /\ notes \in SUBSET Note /\ IsFiniteSet(notes) /\ Single(notes)
  /\ rd \in SUBSET Row /\ Remembered(notes, rd)

\* A cut takes the oldest: what goes is no younger than what stays, and a full
\* list stays full and does not grow older.
LEMMA CutsFacts ==
  ASSUME NEW notes \in SUBSET Note, NEW new, notes \cup new \in SUBSET Note,
         IsFiniteSet(notes \cup new), NEW kept \in Cuts(notes, new)
  PROVE  /\ kept \in SUBSET (notes \cup new) /\ IsFiniteSet(kept)
         /\ \A m \in (notes \cup new) \ kept :
              Cardinality(kept) = MaxNotes /\ \A n \in kept : m.at <= n.at
         /\ Cardinality(notes) = MaxNotes =>
              /\ Cardinality(kept) = MaxNotes
              /\ \A n \in kept : \E m \in notes : m.at <= n.at
<1> DEFINE all == notes \cup new
<1> HIDE DEF all
<1>1. all \in SUBSET Note /\ IsFiniteSet(all) /\ notes \subseteq all
  BY DEF all
<1>2. /\ IsFiniteSet(notes) /\ Cardinality(notes) \in Nat /\ Cardinality(all) \in Nat
      /\ Cardinality(notes) <= Cardinality(all)
      /\ Cardinality(notes) = Cardinality(all) => notes = all
  BY <1>1, FS_Subset, FS_CardinalityType
<1>3. MaxNotes \in Nat /\ \A n \in all : n.at \in Nat
  BY <1>1, WebAssumption DEF Note
<1>4. CASE Cardinality(all) <= MaxNotes
  <2>1. kept = all
    BY <1>4 DEF Cuts, all
  <2>2. Cardinality(notes) = MaxNotes => notes = all
    BY <1>2, <1>3, <1>4
  <2>3. \A n \in kept : n.at <= n.at
    BY <2>1, <1>3
  <2> QED
    BY <2>1, <2>2, <2>3, <1>1 DEF all
<1>5. CASE ~(Cardinality(all) <= MaxNotes)
  <2>1. kept \in kSubset(MaxNotes, all)
    BY <1>5 DEF Cuts, all
  <2>2. kept \in SUBSET all /\ Cardinality(kept) = MaxNotes
    BY <2>1 DEF kSubset
  <2>3. \A n \in kept, m \in all \ kept : m.at < n.at \/ m.at = n.at
    BY <1>5 DEF Cuts, all
  <2>4. \A n \in kept, m \in all \ kept : m.at <= n.at
    BY <2>2, <2>3, <1>3
  <2>5. IsFiniteSet(kept)
    BY <2>2, <1>1, FS_Subset
  <2>6. ASSUME Cardinality(notes) = MaxNotes, NEW n \in kept
        PROVE  \E m \in notes : m.at <= n.at
    <3>1. CASE n \in notes
      BY <3>1, <1>1, <1>3
    <3>2. CASE n \notin notes
      <4>1. ~(notes \subseteq kept)
        <5> SUFFICES ASSUME notes \subseteq kept PROVE FALSE
          OBVIOUS
        <5>1. Cardinality(notes) = Cardinality(kept) => notes = kept
          BY <2>5, FS_Subset
        <5> QED
          BY <5>1, <3>2, <2>2, <2>6
      <4>2. PICK m \in notes : m \notin kept
        BY <4>1
      <4> QED
        BY <4>2, <2>4, <1>1
    <3> QED
      BY <3>1, <3>2
  <2> QED
    BY <2>2, <2>4, <2>5, <2>6 DEF all
<1> QED
  BY <1>4, <1>5

LEMMA UpsertRemembers ==
  ASSUME NEW notes, NEW rd, NotesOK(notes, rd), NEW d, NEW str, NEW kept,
         Refiled(notes, kept, d, str)
  PROVE  NotesOK(kept, rd)
<1>1. PICK told : Tells(told, d, str) /\ kept \in Upsert(notes, told)
  BY DEF Refiled
<1> DEFINE new == New(notes, told)
           all == notes \cup new
<1>2. /\ notes \in SUBSET Note /\ IsFiniteSet(notes) /\ Single(notes)
      /\ rd \in SUBSET Row /\ Remembered(notes, rd)
  BY DEF NotesOK
<1>3. all \in SUBSET Note /\ IsFiniteSet(all) /\ Single(all)
  BY <1>1, <1>2, AddedFacts DEF Tells
<1>4. kept \in Cuts(notes, new)
  BY <1>1 DEF Upsert
<1> HIDE DEF new
<1>5. /\ kept \in SUBSET all /\ IsFiniteSet(kept)
      /\ \A m \in all \ kept :
           Cardinality(kept) = MaxNotes /\ \A n \in kept : m.at <= n.at
      /\ Cardinality(notes) = MaxNotes =>
           /\ Cardinality(kept) = MaxNotes
           /\ \A n \in kept : \E m \in notes : m.at <= n.at
  BY <1>2, <1>3, <1>4, CutsFacts
<1>6. notes \subseteq all
  OBVIOUS
<1> HIDE DEF all
<1>7. kept \in SUBSET Note /\ Single(kept)
  BY <1>3, <1>5 DEF Single
<1>8. ASSUME NEW r \in rd
      PROVE  \/ \E n \in kept : n.id = r.id /\ n.at = r.at /\ n.read
             \/ Cardinality(kept) = MaxNotes /\ \A n \in kept : r.at <= n.at
  <2>1. CASE \E m \in notes : m.id = r.id /\ m.at = r.at /\ m.read
    <3>1. PICK m \in notes : m.id = r.id /\ m.at = r.at /\ m.read
      BY <2>1
    <3>2. CASE m \in kept
      BY <3>1, <3>2
    <3>3. CASE m \notin kept
      <4>1. Cardinality(kept) = MaxNotes /\ \A n \in kept : m.at <= n.at
        BY <3>3, <1>5, <1>6
      <4> QED
        BY <4>1, <3>1
    <3> QED
      BY <3>2, <3>3
  <2>2. CASE Cardinality(notes) = MaxNotes /\ \A m \in notes : r.at <= m.at
    <3>1. ASSUME NEW n \in kept PROVE r.at <= n.at
      <4>1. PICK m \in notes : m.at <= n.at
        BY <2>2, <1>5
      <4>2. r.at <= m.at
        BY <2>2
      <4>3. r.at \in Nat /\ m.at \in Nat /\ n.at \in Nat
        BY <1>2, <1>7 DEF Row, Note
      <4> QED
        BY <4>1, <4>2, <4>3
    <3> QED
      BY <3>1, <2>2, <1>5
  <2> QED
    BY <2>1, <2>2, <1>2 DEF Remembered
<1>9. Remembered(kept, rd)
  BY <1>8 DEF Remembered
<1> QED
  BY <1>2, <1>5, <1>7, <1>9 DEF NotesOK

LEMMA MarkedRemembers ==
  ASSUME NEW notes, NEW rd, NotesOK(notes, rd), NEW ids
  PROVE  NotesOK(Marked(notes, ids), rd \cup Rows({n \in notes : n.id \in ids}))
<1> DEFINE mark(n) == [n EXCEPT !.read = @ \/ n.id \in ids]
           u == Marked(notes, ids)
           f == [n \in notes |-> mark(n)]
           now == Rows({n \in notes : n.id \in ids})
           more == rd \cup now
<1>1. /\ notes \in SUBSET Note /\ IsFiniteSet(notes) /\ Single(notes)
      /\ rd \in SUBSET Row /\ Remembered(notes, rd)
  BY DEF NotesOK
<1>2. u = {mark(n) : n \in notes}
  BY DEF Marked
<1>3. \A n \in notes : /\ mark(n).id = n.id /\ mark(n).at = n.at
                       /\ (n.read \/ n.id \in ids) => mark(n).read
  <2> SUFFICES ASSUME NEW n \in notes
               PROVE  /\ mark(n).id = n.id /\ mark(n).at = n.at
                      /\ (n.read \/ n.id \in ids) => mark(n).read
    OBVIOUS
  <2>1. n \in Note
    BY <1>1
  <2>2. mark(n).id = n.id /\ mark(n).at = n.at /\ mark(n).read = (n.read \/ n.id \in ids)
    BY <2>1 DEF Note
  <2> QED
    BY <2>2
<1>4. u \in SUBSET Note
  BY <1>1, MarkedType
<1> HIDE DEF mark
<1>5. f \in [notes -> u] /\ \A n \in u : \E m \in notes : f[m] = n
  BY <1>2
<1>6. \A m, n \in notes : f[m] = f[n] => m = n
  BY <1>1, <1>3 DEF Single
<1> HIDE DEF f
<1>7. f \in Bijection(notes, u)
  BY <1>5, <1>6 DEF Bijection, Injection, Surjection, IsInjective
<1>8. ExistsBijection(notes, u)
  BY <1>7 DEF ExistsBijection
<1>9. IsFiniteSet(u) /\ Cardinality(u) = Cardinality(notes)
  BY <1>1, <1>8, FS_Bijection
<1>10. \A n \in u : \E m \in notes : n = mark(m) /\ n.id = m.id /\ n.at = m.at
  BY <1>2, <1>3
<1>11. \A m \in notes : mark(m) \in u
  BY <1>2
<1> HIDE DEF u
<1>12. Single(u)
  BY <1>1, <1>10 DEF Single
<1>13. \A r \in now : \E n \in notes : n.id \in ids /\ r.id = n.id /\ r.at = n.at
  BY DEF Rows
<1>14. now \in SUBSET Row
  BY <1>1 DEF Rows, Row, Note
<1> HIDE DEF now
<1>15. ASSUME NEW r \in more
       PROVE  \/ \E n \in u : n.id = r.id /\ n.at = r.at /\ n.read
              \/ Cardinality(u) = MaxNotes /\ \A n \in u : r.at <= n.at
  <2>1. ASSUME NEW m \in notes, m.id = r.id, m.at = r.at, m.read \/ m.id \in ids
        PROVE  \E n \in u : n.id = r.id /\ n.at = r.at /\ n.read
    <3>1. mark(m).id = r.id /\ mark(m).at = r.at /\ mark(m).read /\ mark(m) \in u
      BY <2>1, <1>3, <1>11
    <3> QED
      BY <3>1
  <2>2. CASE r \in now
    BY <2>1, <2>2, <1>13
  <2>3. CASE r \in rd
    <3>1. CASE \E m \in notes : m.id = r.id /\ m.at = r.at /\ m.read
      BY <3>1, <2>1
    <3>2. CASE Cardinality(notes) = MaxNotes /\ \A m \in notes : r.at <= m.at
      BY <3>2, <1>9, <1>10
    <3> QED
      BY <3>1, <3>2, <2>3, <1>1 DEF Remembered
  <2> QED
    BY <2>2, <2>3
<1>16. Remembered(u, more)
  BY <1>15 DEF Remembered
<1>17. more \in SUBSET Row
  BY <1>1, <1>14
<1> HIDE DEF more
<1>18. NotesOK(u, more)
  BY <1>4, <1>9, <1>12, <1>16, <1>17 DEF NotesOK
<1> QED
  BY <1>18 DEF u, more, now

AllNotesOK ==
  /\ read \in [Dealership -> SUBSET Row]
  /\ \A d \in Dealership : NotesOK(tab.notes[d], read[d])

\* What was read comes back as new only in a full list, and then with a later
\* date or as one of the oldest, though the list is cut again and again and the
\* same things are told again and again: upsertNotifications.
THEOREM ReadComesBackOnlyRedated == Spec => []ReadUnlessRedated
<1>1. Init => AllNotesOK
  <2> SUFFICES ASSUME Init PROVE AllNotesOK
    OBVIOUS
  <2>1. read = [d \in Dealership |-> {}] /\ tab.notes = [d \in Dealership |-> {}]
    BY WebInit DEF Init
  <2>2. NotesOK({}, {})
    BY FS_EmptySet DEF NotesOK, Single, Remembered
  <2> QED
    BY <2>1, <2>2 DEF AllNotesOK
<1>2. WebInv /\ AllNotesOK /\ [Next]_vars => AllNotesOK'
  <2> SUFFICES ASSUME WebInv, AllNotesOK, [Next]_vars PROVE AllNotesOK'
    OBVIOUS
  <2>1. CASE UNCHANGED vars
    BY <2>1 DEF vars, AllNotesOK
  <2>2. CASE Next
    <3>1. NotesStep
      BY <2>2, WebStep DEF StepOK
    <3>2. /\ tab.notes \in [Dealership -> SUBSET Note] /\ read \in [Dealership -> SUBSET Row]
          /\ \A d \in Dealership : NotesOK(tab.notes[d], read[d])
      BY DEF WebInv, TabOK, Typed, AllNotesOK
    <3>3. CASE tab'.notes = tab.notes /\ read' = read
      BY <3>2, <3>3 DEF AllNotesOK
    <3>4. ASSUME NEW d \in Dealership, NEW mid, NEW kept,
                 Refiled(tab.notes[d], mid, d, strayed'),
                 kept = mid \/ Refiled(mid, kept, d, strayed'),
                 tab'.notes = [tab.notes EXCEPT ![d] = kept], read' = read
          PROVE  AllNotesOK'
      <4>1. NotesOK(mid, read[d])
        BY <3>2, <3>4, UpsertRemembers
      <4>2. NotesOK(kept, read[d])
        BY <4>1, <3>4, UpsertRemembers
      <4>3. \A e \in Dealership : NotesOK(tab'.notes[e], read'[e])
        BY <4>2, <3>2, <3>4
      <4> QED
        BY <4>3, <3>2, <3>4 DEF AllNotesOK
    <3>5. ASSUME NEW d \in Dealership, NEW ids,
                 tab'.notes = [tab.notes EXCEPT ![d] = Marked(tab.notes[d], ids)],
                 read' = [read EXCEPT ![d] = @ \cup Rows({n \in tab.notes[d] : n.id \in ids})]
          PROVE  AllNotesOK'
      <4> DEFINE N == Marked(tab.notes[d], ids)
                 R == read[d] \cup Rows({n \in tab.notes[d] : n.id \in ids})
      <4>1. NotesOK(N, R)
        BY <3>2, MarkedRemembers
      <4>2. tab'.notes = [tab.notes EXCEPT ![d] = N] /\ read' = [read EXCEPT ![d] = R]
        BY <3>5
      <4>3. R \in SUBSET Row
        BY <4>1 DEF NotesOK
      <4> HIDE DEF N, R
      <4>4. \A e \in Dealership : NotesOK(tab'.notes[e], read'[e])
        BY <4>1, <4>2, <3>2
      <4>5. read' \in [Dealership -> SUBSET Row]
        BY <4>2, <4>3, <3>2
      <4> QED
        BY <4>4, <4>5 DEF AllNotesOK
    <3> QED
      BY <3>1, <3>3, <3>4, <3>5 DEF NotesStep
  <2> QED
    BY <2>1, <2>2
<1>3. AllNotesOK => ReadUnlessRedated
  <2> SUFFICES ASSUME AllNotesOK, NEW d \in Dealership,
                      NEW n \in tab.notes[d], NEW r \in read[d], n.id = r.id, ~n.read
               PROVE  /\ Cardinality(tab.notes[d]) = MaxNotes
                      /\ r.at < n.at \/ \A m \in tab.notes[d] : n.at <= m.at
    BY DEF ReadUnlessRedated
  <2> DEFINE notes == tab.notes[d]
  <2>1. /\ notes \in SUBSET Note /\ Single(notes) /\ r \in Row
        /\ \/ \E m \in notes : m.id = r.id /\ m.at = r.at /\ m.read
           \/ Cardinality(notes) = MaxNotes /\ \A m \in notes : r.at <= m.at
    BY DEF AllNotesOK, NotesOK, Remembered
  <2> HIDE DEF notes
  <2>2. n \in notes
    BY DEF notes
  <2>3. Cardinality(notes) = MaxNotes /\ \A m \in notes : r.at <= m.at
    BY <2>1, <2>2 DEF Single
  <2>4. r.at \in Nat /\ \A m \in notes : m.at \in Nat
    BY <2>1 DEF Row, Note
  <2>5. r.at < n.at \/ r.at = n.at
    BY <2>2, <2>3, <2>4
  <2> QED
    BY <2>3, <2>5 DEF notes
<1> QED
  BY <1>1, <1>2, <1>3, WebSafe, PTL DEF Spec
=============================================================================
