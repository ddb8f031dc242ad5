--------------------------- MODULE DashboardProofs ---------------------------
(* Proofs about Dashboard for any models, catalogs and settings and any      *)
(* number of prompts, moves of the toggle, restarts and edits.               *)
EXTENDS Dashboard, SequenceTheorems, TLAPS

Fetches(V) == {Waiting, Failure, Taken} \cup {Answer(v) : v \in V}

Texts == {<<"typing">>} \cup {<<"reply", p>> : p \in Nat} \cup {<<"error", p>> : p \in Nat}

Request == [freeOnly : BOOLEAN, answer : Fetches(SUBSET Models)]

Chat == [model : Models \cup {NoModel},
         stage : {"posted", "calling", "answered", "error", "done"}, text : Texts]

Shapes == /\ health \in Fetches(Settings)
          /\ lists \in Seq(Request)
          /\ chats \in Seq(Chat)

(* checkHealth is called once, at boot: what it learnt of the key stays.     *)
KeylessOnceTold == page.keyless => health = Taken

(* The footer reports on a prompt that was sent.                             *)
UsageOfAPrompt == page.usage # 0 => page.usage \in Prompts

IInv == /\ TypeOK
        /\ Shapes
        /\ KeylessOnceTold
        /\ UsageOfAPrompt
        /\ AnswersInTheirBubble
        /\ SendComesBack
        /\ FreeModeNeverPays

LEMMA InitIInv == Init => IInv
<1> SUFFICES ASSUME Init PROVE IInv
  OBVIOUS
<1>1. chats = <<>> /\ Prompts = {}
  BY DEF Init, Prompts
<1>2. page \in Page
  BY DEF Init, Page
<1>3. TypeOK
  BY <1>1, <1>2 DEF Init, TypeOK
<1>4. Shapes
  BY <1>1, NewList(TRUE) \in [freeOnly : BOOLEAN, answer : Fetches(SUBSET Models)]
  DEF Init, Shapes, Fetches, Request, NewList
<1>5. KeylessOnceTold /\ UsageOfAPrompt /\ AnswersInTheirBubble /\ SendComesBack
  BY <1>1 DEF Init, KeylessOnceTold, UsageOfAPrompt, AnswersInTheirBubble, SendComesBack
<1>6. FreeModeNeverPays
  BY DEF Init, FreeModeNeverPays
<1> QED BY <1>3, <1>4, <1>5, <1>6 DEF IInv

(* What the registry makes of a catalog: ids of models; and in a catalog that *)
(* loads one entry names a model, so that a free one is free throughout.      *)
LEMMA CatalogIds ==
    ASSUME TypeOK
    PROVE  /\ catalog \in Seq(Entry)
           /\ All \subseteq Models
           /\ Free \subseteq Models
<1>1. catalog \in Seq(Entry)
  BY DashboardAssumption DEF TypeOK
<1>2. ToSet(catalog) \subseteq Entry
  BY <1>1 DEF ToSet
<1> QED BY <1>1, <1>2 DEF All, Free, Entry

LEMMA FreeThroughout ==
    ASSUME TypeOK, Loads, NEW model \in Free
    PROVE  LET entries == {e \in ToSet(catalog) : e.id = model}
           IN  /\ entries # {}
               /\ model \in Suffixed \/ \A e \in entries : e.price = "zero"
<1>1. PICK i \in DOMAIN catalog : catalog[i].id = model /\ IsFree(catalog[i])
  BY DEF Free, ToSet
<1>2. \A j \in DOMAIN catalog : catalog[j].id = model => j = i
  BY <1>1 DEF Loads, IsInjective
<1> QED BY <1>1, <1>2 DEF ToSet, IsFree

LEMMA ChatFields ==
    ASSUME chats' \in Seq(Chat)
    PROVE  \A q \in Prompts' :
              /\ chats'[q].model \in Models \cup {NoModel}
              /\ chats'[q].stage \in {"posted", "calling", "answered", "error", "done"}
<1>1. \A q \in Prompts' : chats'[q] \in Chat
  BY DEF Prompts
<1> QED BY <1>1 DEF Chat

(* A prompt that is answered, refused or called with moves on: bubbles and   *)
(* footer stay, and it still waits for its handler.                          *)
LEMMA StageMoves ==
    ASSUME IInv, page' = page, NEW p \in Prompts, chats[p].stage # "done",
           NEW stage \in {"calling", "answered", "error"}, Stage(p, stage)
    PROVE  /\ chats' \in Seq(Chat)
           /\ UsageOfAPrompt' /\ AnswersInTheirBubble' /\ SendComesBack'
<1>1. /\ chats \in Seq(Chat)
      /\ chats' = [chats EXCEPT ![p].stage = stage]
  BY DEF IInv, Shapes, Stage
<1>2. /\ chats' \in Seq(Chat)
      /\ Prompts' = Prompts
      /\ chats'[p].stage = stage
      /\ \A q \in Prompts : chats'[q].text = chats[q].text
      /\ \A q \in Prompts \ {p} : chats'[q] = chats[q]
  <2>1. chats[p] \in Chat
    BY <1>1 DEF Prompts
  <2>2. /\ [chats[p] EXCEPT !.stage = stage] \in Chat
        /\ [chats[p] EXCEPT !.stage = stage].stage = stage
        /\ [chats[p] EXCEPT !.stage = stage].text = chats[p].text
    BY <2>1 DEF Chat
  <2>3. chats' = [chats EXCEPT ![p] = [chats[p] EXCEPT !.stage = stage]]
    BY <1>1
  <2>4. p \in 1 .. Len(chats)
    BY <1>1 DEF Prompts
  <2>5. chats' \in Seq(Chat) /\ Len(chats') = Len(chats)
    BY <1>1, <2>2, <2>3, <2>4, ExceptSeq
  <2> QED BY <1>1, <2>2, <2>3, <2>4, <2>5 DEF Prompts
<1>3. UsageOfAPrompt'
  BY <1>2 DEF IInv, UsageOfAPrompt
<1>4. AnswersInTheirBubble'
  BY <1>2 DEF IInv, UsageOfAPrompt, AnswersInTheirBubble
<1>5. SendComesBack'
  BY <1>2 DEF SendComesBack
<1> QED BY <1>2, <1>3, <1>4, <1>5

LEMMA ServeChatIInv ==
    ASSUME IInv, NEW p \in Prompts, ServeChat(p)
    PROVE  IInv'
<1>1. PICK stage \in {"calling", "error"} : Stage(p, stage)
  BY DEF ServeChat
<1>2. /\ chats' \in Seq(Chat)
      /\ UsageOfAPrompt' /\ AnswersInTheirBubble' /\ SendComesBack'
  BY <1>1, StageMoves DEF ServeChat
<1>3. chats[p].model \in Models \cup {NoModel}
  BY DEF IInv, TypeOK
<1>4. TypeOK'
  <2>1. called' \subseteq [model : Models \cup {NoModel}, freeOnly : BOOLEAN,
                           catalog : Catalogs \cup {Shipped}]
    <3>1. server.freeOnly \in BOOLEAN /\ catalog \in Catalogs \cup {Shipped}
      BY DEF IInv, TypeOK, Settings
    <3> QED BY <1>3, <3>1 DEF IInv, TypeOK, ServeChat
  <2>2. \A q \in Prompts' : /\ chats'[q].model \in Models \cup {NoModel}
                            /\ chats'[q].stage \in {"posted", "calling", "answered", "error", "done"}
    BY <1>2, ChatFields
  <2> QED BY <2>1, <2>2 DEF IInv, TypeOK, ServeChat
<1>5. Shapes' /\ KeylessOnceTold'
  BY <1>2 DEF IInv, Shapes, KeylessOnceTold, ServeChat
<1>6. FreeModeNeverPays'
  <2>1. CASE called' = called
    BY <2>1 DEF IInv, FreeModeNeverPays
  <2>2. CASE /\ ~Refused(chats[p].model)
             /\ called' = called \cup {[model |-> chats[p].model, freeOnly |-> server.freeOnly,
                                        catalog |-> catalog]}
    <3>1. Loads /\ (server.freeOnly => chats[p].model \in Free)
      BY <2>2 DEF Refused
    <3>2. TypeOK
      BY DEF IInv
    <3> QED BY <2>2, <3>1, <3>2, FreeThroughout DEF IInv, FreeModeNeverPays
  <2> QED BY <2>1, <2>2 DEF ServeChat
<1> QED BY <1>2, <1>4, <1>5, <1>6 DEF IInv

LEMMA CallEndsIInv ==
    ASSUME IInv, NEW p \in Prompts, CallEnds(p)
    PROVE  IInv'
<1>1. /\ chats' \in Seq(Chat)
      /\ UsageOfAPrompt' /\ AnswersInTheirBubble' /\ SendComesBack'
  BY StageMoves DEF CallEnds
<1>2. \A q \in Prompts' : /\ chats'[q].model \in Models \cup {NoModel}
                          /\ chats'[q].stage \in {"posted", "calling", "answered", "error", "done"}
  BY <1>1, ChatFields
<1>3. TypeOK'
  BY <1>2 DEF IInv, TypeOK, CallEnds, host
<1>4. Shapes' /\ KeylessOnceTold' /\ FreeModeNeverPays'
  BY <1>1 DEF IInv, Shapes, KeylessOnceTold, FreeModeNeverPays, CallEnds, host
<1> QED BY <1>1, <1>3, <1>4 DEF IInv

(* The steps of the server that no prompt is about, and the edit.            *)
LEMMA ServeIInv ==
    ASSUME IInv, ServeHealth \/ (\E i \in Requests : ServeModels(i)) \/ EditCatalog
    PROVE  IInv'
<1>1. page' = page /\ chats' = chats /\ server' = server /\ called' = called
  BY DEF ServeHealth, ServeModels, EditCatalog, host
<1>2. UsageOfAPrompt' /\ AnswersInTheirBubble' /\ SendComesBack' /\ FreeModeNeverPays'
  BY <1>1 DEF IInv, UsageOfAPrompt, AnswersInTheirBubble, SendComesBack, FreeModeNeverPays, Prompts
<1>3. TypeOK'
  <2>1. catalog' \in Catalogs \cup {Shipped}
    BY DEF IInv, TypeOK, ServeHealth, ServeModels, EditCatalog, host
  <2> QED BY <1>1, <2>1 DEF IInv, TypeOK, Prompts
<1>4. KeylessOnceTold'
  BY <1>1 DEF IInv, KeylessOnceTold, ServeHealth, ServeModels, EditCatalog, Waiting, Taken
<1>5. Shapes'
  <2>1. CASE ServeHealth
    BY <2>1 DEF IInv, TypeOK, Shapes, Fetches, ServeHealth
  <2>2. ASSUME NEW i \in Requests, ServeModels(i)
        PROVE  Shapes'
    <3>1. PICK answer \in Fetches(SUBSET Models) : lists' = [lists EXCEPT ![i].answer = answer]
      <4>1. All \in SUBSET Models /\ Free \in SUBSET Models
        BY CatalogIds DEF IInv
      <4>2. /\ Failure \in Fetches(SUBSET Models)
            /\ Answer(All) \in Fetches(SUBSET Models)
            /\ Answer(Free) \in Fetches(SUBSET Models)
        BY <4>1 DEF Fetches
      <4> QED BY <2>2, <4>2 DEF ServeModels
    <3>2. lists' \in Seq(Request)
      <4>1. lists \in Seq(Request) /\ i \in 1 .. Len(lists) /\ lists[i] \in Request
        BY DEF IInv, Shapes, Requests
      <4>2. [lists[i] EXCEPT !.answer = answer] \in Request
        BY <4>1 DEF Request
      <4>3. lists' = [lists EXCEPT ![i] = [lists[i] EXCEPT !.answer = answer]]
        BY <3>1, <4>1
      <4> QED BY <4>1, <4>2, <4>3, ExceptSeq
    <3> QED BY <1>1, <2>2, <3>2 DEF IInv, Shapes, ServeModels
  <2>3. CASE EditCatalog
    BY <2>3 DEF IInv, Shapes, EditCatalog
  <2> QED BY <2>1, <2>2, <2>3
<1> QED BY <1>2, <1>3, <1>4, <1>5 DEF IInv

LEMMA RestartIInv ==
    ASSUME IInv, Restart
    PROVE  IInv'
<1>1. /\ Prompts' = Prompts
      /\ \A p \in Prompts : /\ chats'[p].text = chats[p].text
                            /\ chats'[p].stage = "done" <=> chats[p].stage = "done"
                            /\ chats'[p] \in Chat
      /\ chats' \in Seq(Chat)
  <2>1. chats \in Seq(Chat)
    BY DEF IInv, Shapes
  <2>2. Len(chats) \in Nat /\ Prompts = 1 .. Len(chats)
    BY <2>1 DEF Prompts
  <2>3. chats' = [p \in 1 .. Len(chats) |->
                     IF chats[p].stage \in {"posted", "calling"}
                     THEN [chats[p] EXCEPT !.stage = "error"] ELSE chats[p]]
    BY <2>2 DEF Restart
  <2>4. \A p \in Prompts : /\ chats'[p].text = chats[p].text
                           /\ chats'[p].stage = "done" <=> chats[p].stage = "done"
                           /\ chats'[p] \in Chat
    <3> SUFFICES ASSUME NEW p \in Prompts
                 PROVE  /\ chats'[p].text = chats[p].text
                        /\ chats'[p].stage = "done" <=> chats[p].stage = "done"
                        /\ chats'[p] \in Chat
      OBVIOUS
    <3>1. chats[p] \in Chat
      BY <2>1, <2>2
    <3>2. CASE chats[p].stage \in {"posted", "calling"}
      BY <2>2, <2>3, <3>1, <3>2 DEF Chat
    <3>3. CASE chats[p].stage \notin {"posted", "calling"}
      BY <2>2, <2>3, <3>1, <3>3
    <3> QED BY <3>2, <3>3
  <2> QED BY <2>2, <2>3, <2>4 DEF Prompts
<1>2. page' = page /\ called' = called /\ catalog' = catalog /\ server' \in Settings
  BY DEF Restart
<1>3. TypeOK'
  BY <1>1, <1>2 DEF IInv, TypeOK, Chat
<1>4. KeylessOnceTold' /\ UsageOfAPrompt' /\ FreeModeNeverPays'
  BY <1>1, <1>2 DEF IInv, KeylessOnceTold, UsageOfAPrompt, FreeModeNeverPays, Restart, Waiting, Taken
<1>5. AnswersInTheirBubble' /\ SendComesBack'
  BY <1>1, <1>2 DEF IInv, UsageOfAPrompt, AnswersInTheirBubble, SendComesBack
<1>6. Shapes'
  <2>1. health' \in Fetches(Settings)
    BY DEF IInv, Shapes, Restart, Fetches
  <2>2. lists' \in Seq(Request)
    <3>1. /\ lists \in Seq(Request)
          /\ Failure \in Fetches(SUBSET Models)
      BY DEF IInv, Shapes, Fetches
    <3>2. Len(lists) \in Nat /\ Requests = 1 .. Len(lists)
      BY <3>1 DEF Requests
    <3>3. \A i \in Requests : [lists[i] EXCEPT !.answer = Failure]
                                 \in Request
      <4> SUFFICES ASSUME NEW i \in Requests
                   PROVE  [lists[i] EXCEPT !.answer = Failure] \in Request
        OBVIOUS
      <4>1. lists[i] \in Request
        BY <3>1, <3>2
      <4> QED BY <3>1, <4>1 DEF Request
    <3>4. lists' = [i \in 1 .. Len(lists) |->
                       IF lists[i].answer = Waiting
                       THEN [lists[i] EXCEPT !.answer = Failure] ELSE lists[i]]
      BY <3>2 DEF Restart
    <3>5. \A i \in 1 .. Len(lists) : lists'[i] \in Request
      BY <3>1, <3>2, <3>3, <3>4
    <3> QED BY <3>2, <3>4, <3>5
  <2> QED BY <1>1, <2>1, <2>2 DEF Shapes
<1> QED BY <1>3, <1>4, <1>5, <1>6 DEF IInv

-----------------------------------------------------------------------------
(* The page.                                                                *)

(* A handler that leaves prompts, footer and button alone.                   *)
LEMMA QuietHandler ==
    ASSUME IInv, chats' = chats, called' = called,
           page'.usage \in {0, page.usage}, page'.send = page.send, page'.keyless = page.keyless
    PROVE  UsageOfAPrompt' /\ AnswersInTheirBubble' /\ SendComesBack' /\ FreeModeNeverPays'
<1>1. Prompts' = Prompts
  BY DEF Prompts
<1> QED BY <1>1 DEF IInv, UsageOfAPrompt, AnswersInTheirBubble, SendComesBack, FreeModeNeverPays

(* The types of what belongs to the server.                                  *)
LEMMA HostTyped ==
    ASSUME IInv, UNCHANGED host, chats' \in Seq(Chat), page' \in Page,
           IF page'.listed = {} THEN page'.selected = NoModel ELSE page'.selected \in page'.listed
    PROVE  TypeOK'
BY ChatFields DEF IInv, TypeOK, host

(* The button goes on and off with the key, of which the page hears once.    *)
LEMMA HealthArrivesIInv ==
    ASSUME IInv, HealthArrives
    PROVE  IInv'
<1>1. page \in Page /\ health \in Fetches(Settings) /\ chats \in Seq(Chat)
  BY DEF IInv, TypeOK, Shapes
<1>2. /\ UNCHANGED <<host, lists, chats>> /\ health' = Taken /\ called' = called
      /\ Prompts' = Prompts
  BY DEF HealthArrives, host, Prompts
<1>3. ~page.keyless
  BY DEF IInv, KeylessOnceTold, HealthArrives, Settled
<1>4. CASE health = Failure
  <2>1. page' = page
    BY <1>4 DEF HealthArrives
  <2>2. TypeOK'
    BY <1>1, <1>2, <2>1, HostTyped DEF IInv, TypeOK
  <2>3. UsageOfAPrompt' /\ AnswersInTheirBubble' /\ SendComesBack' /\ FreeModeNeverPays'
    BY <1>2, <2>1, QuietHandler
  <2> QED BY <1>1, <1>2, <1>3, <2>1, <2>2, <2>3 DEF IInv, Shapes, KeylessOnceTold, Fetches
<1>5. CASE health # Failure
  <2>1. PICK settings \in Settings : health = Answer(settings)
    BY <1>1, <1>5 DEF HealthArrives, Settled, Fetches
  <2>2. page' = [page EXCEPT !.toggle = settings.freeOnly, !.send = @ /\ settings.key,
                             !.keyless = ~settings.key]
    BY <1>5, <2>1 DEF HealthArrives, Answer
  <2>3. settings.key \in BOOLEAN /\ settings.freeOnly \in BOOLEAN
    BY DashboardAssumption DEF Settings
  <2>4. /\ page' \in Page
        /\ page'.listed = page.listed /\ page'.selected = page.selected
        /\ page'.usage = page.usage
        /\ page'.send = (page.send /\ settings.key)
        /\ page'.keyless = ~settings.key
    BY <1>1, <2>2, <2>3 DEF Page
  <2>5. TypeOK'
    BY <1>1, <1>2, <2>4, HostTyped DEF IInv, TypeOK
  <2>6. SendComesBack'
    BY <1>2, <1>3, <2>4 DEF IInv, SendComesBack
  <2>7. UsageOfAPrompt' /\ AnswersInTheirBubble' /\ FreeModeNeverPays'
    BY <1>2, <2>4 DEF IInv, UsageOfAPrompt, AnswersInTheirBubble, FreeModeNeverPays
  <2> QED BY <1>1, <1>2, <2>5, <2>6, <2>7 DEF IInv, Shapes, KeylessOnceTold, Fetches
<1> QED BY <1>4, <1>5

LEMMA ToggleIInv ==
    ASSUME IInv, Toggle
    PROVE  IInv'
<1>1. page \in Page /\ chats \in Seq(Chat) /\ lists \in Seq(Request)
  BY DEF IInv, TypeOK, Shapes
<1>2. /\ page' \in Page
      /\ page'.listed = page.listed /\ page'.selected = page.selected /\ page'.usage = page.usage
      /\ page'.send = page.send /\ page'.keyless = page.keyless
  <2>1. page.toggles + 1 \in Nat /\ (~page.toggle) \in BOOLEAN
    BY <1>1 DEF Page
  <2>2. page' = [page EXCEPT !.toggle = ~page.toggle, !.toggles = page.toggles + 1]
    BY DEF Toggle
  <2> QED BY <1>1, <2>1, <2>2 DEF Page
<1>3. UNCHANGED <<host, health, chats>> /\ called' = called
  BY DEF Toggle, host
<1>4. TypeOK'
  BY <1>1, <1>2, <1>3, HostTyped DEF IInv, TypeOK
<1>5. lists' \in Seq(Request)
  <2>1. page'.toggle \in BOOLEAN
    BY <1>2 DEF Page
  <2>2. NewList(page'.toggle) \in Request
    BY <2>1 DEF NewList, Request, Fetches
  <2> QED BY <1>1, <2>2 DEF Toggle
<1>6. Shapes' /\ KeylessOnceTold'
  BY <1>2, <1>3, <1>5 DEF IInv, Shapes, KeylessOnceTold
<1> QED BY <1>2, <1>3, <1>4, <1>6, QuietHandler DEF IInv

(* The selection stays within the options.                                   *)
LEMMA ModelsArriveIInv ==
    ASSUME IInv, NEW i \in Requests, ModelsArrive(i)
    PROVE  IInv'
<1>1. page \in Page /\ chats \in Seq(Chat) /\ lists \in Seq(Request) /\ i \in 1 .. Len(lists)
  BY DEF IInv, TypeOK, Shapes, Requests
<1>2. lists[i] \in Request
  BY <1>1
<1>3. UNCHANGED <<host, health, chats>> /\ called' = called
  BY DEF ModelsArrive, host
<1>4. lists' \in Seq(Request)
  <2>1. [lists[i] EXCEPT !.answer = Taken] \in Request
    BY <1>2 DEF Request, Fetches
  <2>2. lists' = [lists EXCEPT ![i] = [lists[i] EXCEPT !.answer = Taken]]
    BY <1>1 DEF ModelsArrive
  <2> QED BY <1>1, <2>1, <2>2, ExceptSeq
<1>5. /\ page' \in Page
      /\ page'.usage = page.usage /\ page'.send = page.send /\ page'.keyless = page.keyless
      /\ IF page'.listed = {} THEN page'.selected = NoModel ELSE page'.selected \in page'.listed
  <2>1. CASE lists[i].answer = Failure
    <3>1. page' = [page EXCEPT !.error = TRUE]
      BY <2>1 DEF ModelsArrive
    <3> QED BY <1>1, <3>1 DEF IInv, TypeOK, Page
  <2>2. CASE lists[i].answer # Failure
    <3>1. PICK list \in SUBSET Models : lists[i].answer = Answer(list)
      <4>1. lists[i].answer \in Fetches(SUBSET Models)
        BY <1>2 DEF Request
      <4>2. lists[i].answer \notin {Waiting, Taken}
        BY DEF ModelsArrive, Settled
      <4> QED BY <2>2, <4>1, <4>2 DEF Fetches
    <3>2. PICK m \in Choice(list) :
             page' = [page EXCEPT !.error = FALSE, !.listed = list, !.selected = m]
      <4>1. lists[i].answer[2] = list
        BY <3>1 DEF Answer
      <4> QED BY <2>2, <4>1 DEF ModelsArrive
    <3>3. IF list = {} THEN m = NoModel ELSE m \in list
      BY <3>2 DEF Choice
    <3> QED BY <1>1, <3>1, <3>2, <3>3 DEF Page
  <2> QED BY <2>1, <2>2
<1>6. TypeOK'
  BY <1>1, <1>3, <1>5, HostTyped
<1>7. Shapes' /\ KeylessOnceTold'
  BY <1>3, <1>4, <1>5 DEF IInv, Shapes, KeylessOnceTold
<1> QED BY <1>3, <1>5, <1>6, <1>7, QuietHandler DEF IInv

LEMMA SelectOrClearIInv ==
    ASSUME IInv, (\E m \in Models : Select(m)) \/ Clear
    PROVE  IInv'
<1>1. page \in Page /\ chats \in Seq(Chat)
  BY DEF IInv, TypeOK, Shapes
<1>2. UNCHANGED <<host, health, lists, chats>> /\ called' = called
  BY DEF Select, Clear, host
<1>3. /\ page' \in Page
      /\ page'.usage \in {0, page.usage}
      /\ page'.send = page.send /\ page'.keyless = page.keyless
      /\ IF page'.listed = {} THEN page'.selected = NoModel ELSE page'.selected \in page'.listed
  <2>1. ASSUME NEW m \in page.listed, page' = [page EXCEPT !.selected = m]
        PROVE  /\ page' \in Page
               /\ page'.usage \in {0, page.usage}
               /\ page'.send = page.send /\ page'.keyless = page.keyless
               /\ page'.listed # {} /\ page'.selected \in page'.listed
    BY <1>1, <2>1 DEF Page
  <2>2. CASE page' = [page EXCEPT !.usage = 0]
    BY <1>1, <2>2 DEF IInv, TypeOK, Page
  <2> QED BY <2>1, <2>2 DEF Select, Clear
<1>4. TypeOK'
  BY <1>1, <1>2, <1>3, HostTyped
<1>5. Shapes' /\ KeylessOnceTold'
  BY <1>2, <1>3 DEF IInv, Shapes, KeylessOnceTold
<1> QED BY <1>2, <1>3, <1>4, <1>5, QuietHandler DEF IInv

LEMMA SendChatIInv ==
    ASSUME IInv, SendChat
    PROVE  IInv'
<1> DEFINE new == [model |-> page.selected, stage |-> "posted", text |-> <<"typing">>]
<1>1. page \in Page /\ chats \in Seq(Chat)
  BY DEF IInv, TypeOK, Shapes
<1>2. new \in Chat
  BY <1>1 DEF Chat, Texts, Page
<1>3. UNCHANGED <<host, health, lists>> /\ called' = called /\ chats' = Append(chats, new)
  BY DEF SendChat, host
<1>4. /\ page' \in Page
      /\ page'.listed = page.listed /\ page'.selected = page.selected
      /\ page'.usage = page.usage /\ page'.keyless = page.keyless
  BY <1>1 DEF SendChat, Page
<1>5. /\ chats' \in Seq(Chat)
      /\ Prompts = 1 .. Len(chats) /\ Prompts' = Prompts \cup {Len(chats) + 1}
      /\ Len(chats) + 1 \notin Prompts
      /\ \A p \in Prompts : chats'[p] = chats[p]
      /\ chats'[Len(chats) + 1] = new
  BY <1>1, <1>2, <1>3 DEF Prompts
<1>6. TypeOK'
  BY <1>1, <1>3, <1>4, <1>5, HostTyped DEF IInv, TypeOK
<1>7. Shapes' /\ KeylessOnceTold' /\ UsageOfAPrompt' /\ FreeModeNeverPays'
  BY <1>3, <1>4, <1>5 DEF IInv, Shapes, KeylessOnceTold, UsageOfAPrompt, FreeModeNeverPays
<1>8. SendComesBack'
  <2>1. chats'[Len(chats) + 1].stage # "done" /\ Len(chats) + 1 \in Prompts'
    BY <1>5
  <2> QED BY <2>1 DEF SendComesBack
<1>9. AnswersInTheirBubble'
  <2>1. /\ chats'[Len(chats) + 1].stage # "done"
        /\ chats'[Len(chats) + 1].text = <<"typing">>
    BY <1>5
  <2>2. \A p \in Prompts' :
           chats'[p].text \in IF chats'[p].stage = "done" THEN {<<"reply", p>>, <<"error", p>>}
                              ELSE {<<"typing">>}
    BY <1>5, <2>1 DEF IInv, AnswersInTheirBubble
  <2>3. page'.usage # 0 => chats'[page'.usage].text = <<"reply", page'.usage>>
    BY <1>4, <1>5 DEF IInv, UsageOfAPrompt, AnswersInTheirBubble
  <2> QED BY <2>2, <2>3 DEF AnswersInTheirBubble
<1> QED BY <1>6, <1>7, <1>8, <1>9 DEF IInv

(* The handler that resumes writes to the bubble it was called for, which no *)
(* footer is about yet.                                                      *)
LEMMA ReplyArrivesIInv ==
    ASSUME IInv, NEW p \in Prompts, ReplyArrives(p)
    PROVE  IInv'
<1>1. page \in Page /\ chats \in Seq(Chat) /\ p \in 1 .. Len(chats)
  BY DEF IInv, TypeOK, Shapes, Prompts
<1>2. chats[p] \in Chat /\ p \in Nat
  BY <1>1
<1>3. UNCHANGED <<host, health, lists>> /\ called' = called
  BY DEF ReplyArrives, host
<1>4. PICK kind \in {"reply", "error"} :
         /\ Fill(p, <<kind, p>>)
         /\ page' = [page EXCEPT !.usage = IF kind = "reply" THEN p ELSE 0, !.send = TRUE]
  BY DEF ReplyArrives
<1>5. /\ page' \in Page
      /\ page'.listed = page.listed /\ page'.selected = page.selected
      /\ page'.keyless = page.keyless /\ page'.send = TRUE
      /\ page'.usage = IF kind = "reply" THEN p ELSE 0
  BY <1>1, <1>2, <1>4 DEF Page
<1>6. /\ chats' \in Seq(Chat) /\ Prompts' = Prompts
      /\ chats'[p].stage = "done" /\ chats'[p].text = <<kind, p>>
      /\ \A q \in Prompts \ {p} : chats'[q] = chats[q]
  <2> DEFINE filled == [chats[p] EXCEPT !.stage = "done", !.text = <<kind, p>>]
  <2>1. <<kind, p>> \in Texts
    BY <1>2 DEF Texts
  <2>2. filled \in Chat /\ filled.stage = "done" /\ filled.text = <<kind, p>>
    BY <1>2, <2>1 DEF Chat
  <2>3. chats' = [chats EXCEPT ![p] = filled]
    BY <1>1, <1>4 DEF Fill
  <2>4. chats' \in Seq(Chat) /\ Len(chats') = Len(chats)
    BY <1>1, <2>2, <2>3, ExceptSeq
  <2> QED BY <1>1, <2>2, <2>3, <2>4 DEF Prompts
<1>7. TypeOK'
  BY <1>1, <1>3, <1>5, <1>6, HostTyped DEF IInv, TypeOK
<1>8. Shapes' /\ KeylessOnceTold' /\ UsageOfAPrompt' /\ FreeModeNeverPays' /\ SendComesBack'
  BY <1>3, <1>5, <1>6
  DEF IInv, Shapes, KeylessOnceTold, UsageOfAPrompt, FreeModeNeverPays, SendComesBack
<1>9. AnswersInTheirBubble'
  BY <1>5, <1>6 DEF IInv, AnswersInTheirBubble
<1> QED BY <1>7, <1>8, <1>9 DEF IInv

-----------------------------------------------------------------------------

LEMMA NextIInv == IInv /\ [Next]_vars => IInv'
<1> SUFFICES ASSUME IInv, [Next]_vars PROVE IInv'
  OBVIOUS
<1>1. CASE UNCHANGED vars
  BY <1>1 DEF IInv, TypeOK, Shapes, KeylessOnceTold, UsageOfAPrompt, AnswersInTheirBubble,
              SendComesBack, FreeModeNeverPays, Prompts, vars, host
<1>2. CASE ServeHealth \/ (\E i \in Requests : ServeModels(i)) \/ EditCatalog
  BY <1>2, ServeIInv
<1>3. CASE \E p \in Prompts : ServeChat(p) \/ CallEnds(p) \/ ReplyArrives(p)
  BY <1>3, ServeChatIInv, CallEndsIInv, ReplyArrivesIInv
<1>4. CASE HealthArrives \/ Toggle \/ SendChat \/ Restart
  BY <1>4, HealthArrivesIInv, ToggleIInv, SendChatIInv, RestartIInv
<1>5. CASE \E i \in Requests : ModelsArrive(i)
  BY <1>5, ModelsArriveIInv
<1>6. CASE (\E m \in Models : Select(m)) \/ Clear
  BY <1>6, SelectOrClearIInv
<1> QED BY <1>1, <1>2, <1>3, <1>4, <1>5, <1>6 DEF Next

LEMMA Invariant == Spec => []IInv
BY InitIInv, NextIInv, PTL DEF Spec

(* The selection of the page is one of its options whenever there is one     *)
(* (loadModels), and everything has its type.                                *)
THEOREM TypeCorrect == Spec => []TypeOK
<1>1. IInv => TypeOK
  BY DEF IInv
<1> QED BY <1>1, Invariant, PTL

(* However many prompts overlap and in whatever order they are answered, an  *)
(* answer is shown in the bubble of its prompt (sendChat).                   *)
THEOREM AnswersFindTheirBubble == Spec => []AnswersInTheirBubble
<1>1. IInv => AnswersInTheirBubble
  BY DEF IInv
<1> QED BY <1>1, Invariant, PTL

(* The button is off only while somebody waits or there is no key (sendChat, *)
(* checkHealth).                                                             *)
THEOREM SendButtonReturns == Spec => []SendComesBack
<1>1. IInv => SendComesBack
  BY DEF IInv
<1> QED BY <1>1, Invariant, PTL

(* In free-only mode the server calls what the catalog says is free at that  *)
(* time, for any lists served before, restarts and edits (chat).             *)
THEOREM FreeModeIsFree == Spec => []FreeModeNeverPays
<1>1. IInv => FreeModeNeverPays
  BY DEF IInv
<1> QED BY <1>1, Invariant, PTL
=============================================================================
