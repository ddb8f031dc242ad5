----------------------------- MODULE Dashboard -----------------------------
(***************************************************************************)
(* The dashboard page (app.js) and the HTTP server behind it (server/app.py) *)
(* as two processes: the page's event loop, whose handlers run from one      *)
(* `await` to the next, and the server, which answers its requests in any    *)
(* order.  The user moves the "Free only" toggle, picks models, sends and    *)
(* clears; under an open page the server may be restarted with another       *)
(* environment, and the catalog of models, which the server reads for each   *)
(* request, may be edited.                                                   *)
(*                                                                           *)
(* Prompts are numbered in the order they are sent; prompt p's bubble, its   *)
(* request and its answer carry the number.  A call to the model is one      *)
(* step that starts it and one that ends it (ChatCompletion).                *)
(***************************************************************************)
EXTENDS Naturals, Sequences, SequencesExt

CONSTANTS Models,            \* model ids
          Suffixed,          \* those that end with ":free"
          Shipped, Catalogs, \* the entries of models.yaml: as shipped, as edited
          NoModel,           \* the value of a select without options
          Key,               \* may the server have an API key: subset of BOOLEAN
          MaxPrompts, MaxToggles,
          MaxChanges         \* bound: restarts and edits of the catalog

\* An entry of the catalog; one that ModelSpec refuses has the price "invalid".
Entry == [id : Models, price : {"zero", "some", "invalid"}]

ASSUME DashboardAssumption ==
    /\ Suffixed \subseteq Models /\ NoModel \notin Models
    /\ Catalogs \cup {Shipped} \subseteq Seq(Entry)
    /\ Key \subseteq BOOLEAN /\ Key # {}
    /\ MaxPrompts \in Nat /\ MaxToggles \in Nat /\ MaxChanges \in Nat

VARIABLES
    server,        \* the settings of its environment: [key, freeOnly]
    catalog,       \* models.yaml
    changes,
    called,        \* the calls made: [model, freeOnly and catalog when it was made]
    health,        \* what checkHealth waits for
    lists,         \* the requests of loadModels: id -> [freeOnly, answer]
    chats,         \* the prompts: id -> [model, stage, text]
    page           \* the page's elements, see Page

host == <<server, catalog, changes, called>>
vars == <<host, health, lists, chats, page>>

Prompts == DOMAIN chats
Requests == DOMAIN lists

Settings == [key : Key, freeOnly : BOOLEAN]

\* toggle: #free-only-toggle, moved so often; listed: state.models, the options
\* of #pg-model; selected: its value; error: #models-error is visible; send:
\* #chat-send is enabled; keyless: the page was told that there is no key;
\* usage: the prompt the footer reports on, or 0.
Page == [toggle : BOOLEAN, toggles : Nat, listed : SUBSET Models,
         selected : Models \cup {NoModel}, error : BOOLEAN, send : BOOLEAN,
         keyless : BOOLEAN, usage : Nat]

\* A fetch: no answer yet, a failure, an answer, resumed.
Waiting == <<"waiting">>
Failure == <<"failed">>
Answer(v) == <<"answer", v>>
Taken == <<"taken">>
Settled(fetch) == fetch \notin {Waiting, Taken}

NewList(freeOnly) == [freeOnly |-> freeOnly, answer |-> Waiting]

\* Boot: checkHealth, and loadModels with the toggle as the page is delivered.
Init == /\ server \in Settings
        /\ catalog = Shipped
        /\ changes = 0
        /\ called = {}
        /\ health = Waiting
        /\ lists = <<NewList(TRUE)>>
        /\ chats = <<>>
        /\ page = [toggle |-> TRUE, toggles |-> 0, listed |-> {}, selected |-> NoModel,
                   error |-> FALSE, send |-> TRUE, keyless |-> FALSE, usage |-> 0]

-----------------------------------------------------------------------------
(* The server.                                                              *)

\* ModelRegistry.load: all or nothing.
Loads == /\ \A i \in DOMAIN catalog : catalog[i].price # "invalid"
         /\ IsInjective([i \in DOMAIN catalog |-> catalog[i].id])

IsFree(entry) == entry.id \in Suffixed \/ entry.price = "zero"

All == {entry.id : entry \in ToSet(catalog)}
Free == {entry.id : entry \in {e \in ToSet(catalog) : IsFree(e)}}

\* GET /api/health and GET /api/models, or a request that fails.
ServeHealth ==
    /\ health = Waiting
    /\ health' \in {Answer(server), Failure}
    /\ UNCHANGED <<host, lists, chats, page>>

ServeModels(i) ==
    /\ lists[i].answer = Waiting
    /\ \E answer \in {Failure} \cup
                      IF Loads THEN {Answer(IF lists[i].freeOnly THEN Free ELSE All)} ELSE {} :
          lists' = [lists EXCEPT ![i].answer = answer]
    /\ UNCHANGED <<host, health, chats, page>>

Stage(p, stage) == chats' = [chats EXCEPT ![p].stage = stage]

\* Mutant of Refused: a model the page offers was free when it was listed.
RefusedUnlisted(model) ==
    ~server.key \/ ~Loads \/ (server.freeOnly /\ model \notin Free \cup page.listed)

\* 503 without a key, 500 without a catalog, 400 for an unknown or a paid model in
\* free-only mode.
Refused(model) == ~server.key \/ ~Loads \/ (server.freeOnly /\ model \notin Free)

\* POST /api/chat: the body may be invalid, the request refused, or the call
\* to the model begins.
ServeChat(p) ==
    /\ chats[p].stage = "posted"
    /\ \/ Stage(p, "error") /\ UNCHANGED called
       \/ /\ ~Refused(chats[p].model)
          /\ Stage(p, "calling")
          /\ called' = called \cup {[model |-> chats[p].model, freeOnly |-> server.freeOnly,
                                     catalog |-> catalog]}
    /\ UNCHANGED <<server, catalog, changes, health, lists, page>>

\* chat_completion returns, or raises and nobody catches it: a 500.
CallEnds(p) ==
    /\ chats[p].stage = "calling"
    /\ \E stage \in {"answered", "error"} : Stage(p, stage)
    /\ UNCHANGED <<host, health, lists, page>>

\* Every request the old process had not answered fails.
Restart ==
    /\ changes < MaxChanges
    /\ changes' = changes + 1
    /\ server' \in Settings
    /\ health' = IF health = Waiting THEN Failure ELSE health
    /\ lists' = [i \in Requests |-> IF lists[i].answer = Waiting
                                    THEN [lists[i] EXCEPT !.answer = Failure] ELSE lists[i]]
    /\ chats' = [p \in Prompts |-> IF chats[p].stage \in {"posted", "calling"}
                                   THEN [chats[p] EXCEPT !.stage = "error"] ELSE chats[p]]
    /\ UNCHANGED <<catalog, called, page>>

\* models.yaml is edited, or OAB_MODELS_FILE names another file.
EditCatalog ==
    /\ changes < MaxChanges
    /\ changes' = changes + 1
    /\ catalog' \in Catalogs
    /\ UNCHANGED <<server, called, health, lists, chats, page>>

-----------------------------------------------------------------------------
(* The page.                                                                *)

\* checkHealth after its await.
HealthArrives ==
    /\ Settled(health)
    /\ health' = Taken
    /\ page' = IF health = Failure THEN page
               ELSE [page EXCEPT !.toggle = health[2].freeOnly,
                                 !.send = @ /\ health[2].key,
                                 !.keyless = ~health[2].key]
    /\ UNCHANGED <<host, lists, chats>>

\* The change event of the toggle: loadModels up to its await.
Toggle ==
    /\ page.toggles < MaxToggles
    /\ page' = [page EXCEPT !.toggle = ~@, !.toggles = @ + 1]
    /\ lists' = Append(lists, NewList(page'.toggle))
    /\ UNCHANGED <<host, health, chats>>

\* Mutant of Choice: the choice stays when its option has gone.
ChoiceKept(list) == IF page.selected # NoModel THEN {page.selected} ELSE list

\* The choice is kept if it is listed; otherwise the first option is chosen.
Choice(list) == IF page.selected \in list THEN {page.selected}
                ELSE IF list = {} THEN {NoModel} ELSE list

\* loadModels after its await: a failure leaves the old list in place.
ModelsArrive(i) ==
    /\ Settled(lists[i].answer)
    /\ lists' = [lists EXCEPT ![i].answer = Taken]
    /\ IF lists[i].answer = Failure THEN page' = [page EXCEPT !.error = TRUE]
       ELSE LET list == lists[i].answer[2]
            IN  \E m \in Choice(list) :
                   page' = [page EXCEPT !.error = FALSE, !.listed = list, !.selected = m]
    /\ UNCHANGED <<host, health, chats>>

Select(m) ==
    /\ ~page.keyless
    /\ m \in page.listed \ {page.selected}
    /\ page' = [page EXCEPT !.selected = m]
    /\ UNCHANGED <<host, health, lists, chats>>

\* sendChat up to its await.  Enter submits the form whether or not the button
\* is enabled, so that prompts can overlap.
SendChat ==
    /\ Len(chats) < MaxPrompts
    /\ chats' = Append(chats, [model |-> page.selected, stage |-> "posted",
                               text |-> <<"typing">>])
    /\ page' = [page EXCEPT !.send = FALSE]
    /\ UNCHANGED <<host, health, lists>>

\* Mutant of Fill: the last bubble of the log is the pending one.
FillLast(p, text) == chats' = [chats EXCEPT ![p].stage = "done", ![Len(chats)].text = text]

\* `pending` is the bubble of the call that was awaited.
Fill(p, text) == chats' = [chats EXCEPT ![p].stage = "done", ![p].text = text]

\* Mutant of ReplyArrives: the button comes back with a reply only.
ReplyArrivesNoFinally(p) ==
    /\ chats[p].stage \in {"answered", "error"}
    /\ IF chats[p].stage = "answered"
       THEN Fill(p, <<"reply", p>>) /\ page' = [page EXCEPT !.usage = p, !.send = TRUE]
       ELSE Fill(p, <<"error", p>>) /\ page' = [page EXCEPT !.usage = 0]
    /\ UNCHANGED <<host, health, lists>>

\* Mutant of ReplyArrives: an error leaves the bubble typing.
ReplyArrivesUncaught(p) ==
    /\ chats[p].stage = "answered"
    /\ Fill(p, <<"reply", p>>)
    /\ page' = [page EXCEPT !.usage = p, !.send = TRUE]
    /\ UNCHANGED <<host, health, lists>>

\* sendChat after its await, with its `finally`.
ReplyArrives(p) ==
    /\ chats[p].stage \in {"answered", "error"}
    /\ IF chats[p].stage = "answered"
       THEN Fill(p, <<"reply", p>>) /\ page' = [page EXCEPT !.usage = p, !.send = TRUE]
       ELSE Fill(p, <<"error", p>>) /\ page' = [page EXCEPT !.usage = 0, !.send = TRUE]
    /\ UNCHANGED <<host, health, lists>>

\* #chat-clear: the bubbles leave the page; their handlers go on, and write to them.
Clear ==
    /\ page' = [page EXCEPT !.usage = 0]
    /\ UNCHANGED <<host, health, lists, chats>>

Next == \/ ServeHealth \/ HealthArrives \/ Toggle \/ SendChat \/ Clear \/ Restart \/ EditCatalog
        \/ \E i \in Requests : ServeModels(i) \/ ModelsArrive(i)
        \/ \E m \in Models : Select(m)
        \/ \E p \in Prompts : ServeChat(p) \/ CallEnds(p) \/ ReplyArrives(p)

Spec == Init /\ [][Next]_vars

\* The server answers what it is asked, a call to the model ends
\* (ImplementsChat of RetryClient), a settled fetch resumes its handler.
FairSpec ==
    /\ Spec
    /\ \A p \in 1 .. MaxPrompts :
          WF_vars(p \in Prompts /\ (ServeChat(p) \/ CallEnds(p) \/ ReplyArrives(p)))

-----------------------------------------------------------------------------
(* Properties.                                                              *)

(* The types; an option is selected whenever there is one.                   *)
TypeOK ==
    /\ server \in Settings
    /\ catalog \in Catalogs \cup {Shipped}
    /\ called \subseteq [model : Models \cup {NoModel}, freeOnly : BOOLEAN,
                       catalog : Catalogs \cup {Shipped}]
    /\ page \in Page
    /\ IF page.listed = {} THEN page.selected = NoModel ELSE page.selected \in page.listed
    /\ \A p \in Prompts :
          /\ chats[p].model \in Models \cup {NoModel}
          /\ chats[p].stage \in {"posted", "calling", "answered", "error", "done"}

(* Prompts that overlap, with answers in any order: a bubble shows the answer *)
(* to its own prompt, once that has come, and the footer reports on a prompt  *)
(* that was answered (sendChat).                                              *)
AnswersInTheirBubble ==
    /\ \A p \in Prompts :
          chats[p].text \in IF chats[p].stage = "done" THEN {<<"reply", p>>, <<"error", p>>}
                            ELSE {<<"typing">>}
    /\ page.usage # 0 => chats[page.usage].text = <<"reply", page.usage>>

(* The send button is never left off: it is off only while an answer is       *)
(* awaited or after the page was told that there is no key (sendChat's        *)
(* finally, checkHealth).                                                     *)
SendComesBack ==
    ~page.send => page.keyless \/ \E p \in Prompts : chats[p].stage # "done"

(* With OAB_FREE_MODELS_ONLY set a model is called only if models.yaml has    *)
(* it, at that time, and every entry that names it is free by its price or    *)
(* its suffix: whatever list the page was served before, under whichever      *)
(* settings and catalog (chat, ModelRegistry).                                *)
FreeModeNeverPays ==
    \A c \in called : c.freeOnly =>
        LET entries == {e \in ToSet(c.catalog) : e.id = c.model}
        IN  /\ entries # {}
            /\ c.model \in Suffixed \/ \A e \in entries : e.price = "zero"

(* Every prompt gets its reply or an error (sendChat).                        *)
EveryPromptAnswered ==
    \A p \in 1 .. MaxPrompts :
       (p \in Prompts) ~> (p \in Prompts /\ chats[p].stage = "done")

(* "Toggle Free only off to reveal the paid reference models": once every     *)
(* models request is answered and none has failed, the list is that of the    *)
(* toggle.                                                                    *)
ListFollowsToggle ==
    ((\A i \in Requests : lists[i].answer = Taken) /\ health = Taken /\ ~page.error)
        => page.listed = IF page.toggle THEN Free ELSE All
=============================================================================
