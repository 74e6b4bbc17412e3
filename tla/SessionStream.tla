--------------------------- MODULE SessionStream ---------------------------
(***************************************************************************)
(* The window a browser tab keeps on one session (web/src/store/           *)
(* chatStore.ts): the committed items and the approval cards it shows, fed *)
(* by a live stream without replay and by snapshots fetched beside it.     *)
(*                                                                         *)
(* The server keeps the items, committed in order, and the prompts that    *)
(* wait for a verdict.  It publishes each change to the streams that are   *)
(* subscribed at that moment.  The client runs on one thread: an action is *)
(* what runs between two awaits.                                           *)
(***************************************************************************)
EXTENDS Naturals, Sequences, FiniteSets, SequencesExt

CONSTANTS Prompts,     \* elicitation ids
          PageSize,    \* SESSION_HISTORY_PAGE_SIZE (20)
          MaxPages,    \* RECONNECT_BACKFILL_MAX_PAGES (4)
          MaxItems,    \* bound: committed items
          MaxParks,    \* bound: times a prompt is parked
          MaxBinds,    \* bound: streams bound, by a switch or a send
          MaxFaults    \* bound: requests that fail

ASSUME BoundsAssumption ==
    /\ PageSize \in Nat \ {0} /\ MaxPages \in Nat \ {0}
    /\ MaxItems \in Nat /\ MaxParks \in Nat
    /\ MaxBinds \in Nat \ {0} /\ MaxFaults \in Nat

VARIABLES last,      \* items 1..last are committed
          prompts,   \* what the server knows of each prompt
          parks,
          wire,      \* published on the live connection, not yet received
          view,      \* the session is the one displayed
          window,    \* committed items shown, in the order shown
          buffer,    \* received, waiting for the next frame
          cards,     \* approval card of each prompt
          oldest,    \* oldestItemId: where scroll-up goes on (0: nowhere)
          hasMore,   \* hasMoreHistory
          more,      \* cursor of the page loadMoreHistory waits for (0: none)
          link,      \* the pump of the current binding
          connected, \* hasConnected
          query,     \* the session snapshot in flight
          binds,     \* the calls of bindStream
          recon,     \* the call of reconcileOnReconnect
          posts,     \* verdicts submitted, not yet answered
          faults

server == <<last, prompts, parks>>
shown  == <<window, cards, oldest, hasMore, more>>
conn   == <<link, connected>>
vars   == <<server, wire, view, shown, buffer, conn, query, binds, recon, posts, faults>>

-----------------------------------------------------------------------------
Items == 1..MaxItems
Binds == 1..MaxBinds
Binding(b) == <<"bind", b>>
Reconcile  == <<"reconcile">>
Peek       == <<"visible">>
Waiters    == {Binding(b) : b \in Binds} \cup {Reconcile, Peek}

ItemEvent(i) == [kind |-> "item", item |-> i]
Asked(e)     == [kind |-> "asked", prompt |-> e]
Resolved(e)  == [kind |-> "resolved", prompt |-> e]
Events == {ItemEvent(i) : i \in Items} \cup {Asked(e) : e \in Prompts}
          \cup {Resolved(e) : e \in Prompts}

\* A page of consecutive items; lo = hi + 1 when it is empty.
Span(p) == p.lo..p.hi
InOrder(S) ==
    CHOOSE s \in [1..Cardinality(S) -> S] :
        Range(s) = S /\ \A i, j \in DOMAIN s : i < j => s[i] < s[j]

\* What stands at some positions of a sequence.
Picked(s, at) == [n \in DOMAIN InOrder(at) |-> s[InOrder(at)[n]]]

\* Mutant: a session shorter than a page.
Newest_Unclamped == [lo |-> last + 1 - PageSize, hi |-> last]

Newest == [lo |-> IF last < PageSize THEN 1 ELSE last + 1 - PageSize, hi |-> last]
Before(i) == IF i <= PageSize THEN 1 ELSE i - PageSize

\* Two requests are under way at once: the session and a page of its items.
Fetch == [session : BOOLEAN, asks : SUBSET Prompts,
          page : BOOLEAN, lo : 1..(MaxItems + 1), hi : 0..MaxItems]
NoFetch == [session |-> FALSE, asks |-> {}, page |-> FALSE, lo |-> 1, hi |-> 0]
Fetched(f) == f.session /\ f.page
WithPage(f, p) == [f EXCEPT !.page = TRUE, !.lo = p.lo, !.hi = p.hi]

BindRecord == [st : {"unused", "waiting", "done"}, fetch : Fetch]

\* pages: pages walked back so far.  valid: the window it was started on is
\* still there (historyGeneration).
ReconRecord == [st : {"idle", "pages", "window"}, fetch : Fetch, pages : 1..MaxPages,
                pre : SUBSET Items, prePending : SUBSET Prompts,
                preResolved : SUBSET Prompts, valid : BOOLEAN]
NoRecon == [st |-> "idle", fetch |-> NoFetch, pages |-> 1, pre |-> {},
            prePending |-> {}, preResolved |-> {}, valid |-> FALSE]

QueryRecord == [st : {"idle", "sent", "served"}, asks : SUBSET Prompts,
                for : SUBSET Waiters]
NoQuery == [st |-> "idle", asks |-> {}, for |-> {}]

Rendered == Range(window)
CardsIn(status) == {e \in Prompts : cards[e] = status}
Parked == {e \in Prompts : prompts[e] = "parked"}
NoCards == [e \in Prompts |-> "none"]

TypeOK ==
    /\ last \in 0..MaxItems /\ parks \in 0..MaxParks /\ faults \in 0..MaxFaults
    /\ prompts \in [Prompts -> {"new", "parked", "cleared", "decided"}]
    /\ wire \in Seq(Events) /\ buffer \in Seq(Events)
    /\ window \in Seq(Items)
    /\ cards \in [Prompts -> {"none", "pending", "elsewhere", "answered"}]
    /\ oldest \in 0..MaxItems /\ more \in 0..MaxItems
    /\ view \in BOOLEAN /\ hasMore \in BOOLEAN /\ connected \in BOOLEAN
    /\ link \in {"off", "opening", "up", "dropped", "ended"}
    /\ query \in QueryRecord
    /\ binds \in [Binds -> BindRecord]
    /\ recon \in ReconRecord
    /\ posts \subseteq Prompts

Init ==
    /\ last = 0 /\ prompts = [e \in Prompts |-> "new"] /\ parks = 0
    /\ wire = <<>> /\ view = FALSE /\ window = <<>> /\ buffer = <<>>
    /\ cards = NoCards /\ oldest = 0 /\ hasMore = FALSE /\ more = 0
    /\ link = "off" /\ connected = FALSE
    /\ query = NoQuery
    /\ binds = [b \in Binds |-> [st |-> "unused", fetch |-> NoFetch]]
    /\ recon = NoRecon /\ posts = {} /\ faults = 0

-----------------------------------------------------------------------------
(* The server.  An event is published to the connection that is up.        *)

Publish(ev) == wire' = IF link = "up" THEN Append(wire, ev) ELSE wire

CommitItem ==
    /\ last < MaxItems
    /\ last' = last + 1
    /\ Publish(ItemEvent(last + 1))
    /\ UNCHANGED <<prompts, parks, view, shown, buffer, conn, query, binds, recon, posts, faults>>

\* A harness asks, or asks again under the same id after its wait was cut.
Park(e) ==
    /\ parks < MaxParks
    /\ prompts[e] \in {"new", "cleared"}
    /\ prompts' = [prompts EXCEPT ![e] = "parked"]
    /\ parks' = parks + 1
    /\ Publish(Asked(e))
    /\ UNCHANGED <<last, view, shown, buffer, conn, query, binds, recon, posts, faults>>

\* The wait of the harness is cut, or somebody answers in another place.
ResolveElsewhere(e, to) ==
    /\ prompts[e] = "parked"
    /\ prompts' = [prompts EXCEPT ![e] = to]
    /\ Publish(Resolved(e))
    /\ UNCHANGED <<last, parks, view, shown, buffer, conn, query, binds, recon, posts, faults>>

\* A verdict for a prompt that is not parked is kept for when it parks again.
TakeVerdict(e) ==
    /\ prompts' = [prompts EXCEPT ![e] = "decided"]
    /\ Publish(Resolved(e))
    /\ UNCHANGED <<last, parks>>

-----------------------------------------------------------------------------
(* Requests.  The snapshot of a session is one query, which every caller   *)
(* that asks while it is in flight shares.                                 *)

Joined(w) == IF query.st = "idle" THEN [NoQuery EXCEPT !.st = "sent", !.for = {w}]
             ELSE [query EXCEPT !.for = @ \cup {w}]

ServeSession ==
    /\ query.st = "sent"
    /\ query' = [query EXCEPT !.st = "served", !.asks = Parked]
    /\ UNCHANGED <<server, wire, view, shown, buffer, conn, binds, recon, posts, faults>>

ServeBindPage(b) ==
    /\ binds[b].st = "waiting" /\ ~binds[b].fetch.page
    /\ binds' = [binds EXCEPT ![b].fetch = WithPage(@, Newest)]
    /\ UNCHANGED <<server, wire, view, shown, buffer, conn, query, recon, posts, faults>>

\* Mutant: a verdict that was given counts as a card still shown.
Flipped_Answered(asks) ==
    [e \in Prompts |-> IF cards[e] \in {"pending", "answered"} /\ e \notin asks
                       THEN "elsewhere" ELSE cards[e]]

Flipped(asks) ==
    [e \in Prompts |-> IF cards[e] = "pending" /\ e \notin asks THEN "elsewhere" ELSE cards[e]]

WithSession(f) == [f EXCEPT !.session = TRUE, !.asks = query.asks]

\* reconcilePendingElicitations compares with the cards of now, not with
\* those that were there when it asked.
DeliverSession ==
    /\ query.st = "served"
    /\ query' = NoQuery
    /\ binds' = [b \in Binds |-> IF Binding(b) \in query.for
                                 THEN [binds[b] EXCEPT !.fetch = WithSession(@)]
                                 ELSE binds[b]]
    /\ recon' = IF Reconcile \in query.for
                THEN [recon EXCEPT !.fetch = WithSession(@)] ELSE recon
    /\ cards' = IF Peek \in query.for /\ view THEN Flipped(query.asks) ELSE cards
    /\ UNCHANGED <<server, wire, view, window, oldest, hasMore, more, buffer, conn, posts, faults>>

FailSession ==
    /\ query.st # "idle" /\ faults < MaxFaults
    /\ faults' = faults + 1
    /\ query' = NoQuery
    /\ binds' = [b \in Binds |-> IF Binding(b) \in query.for
                                 THEN [st |-> "done", fetch |-> NoFetch] ELSE binds[b]]
    /\ recon' = IF Reconcile \in query.for THEN NoRecon ELSE recon
    /\ UNCHANGED <<server, wire, view, shown, buffer, conn, posts>>

-----------------------------------------------------------------------------
(* Binding (bindStream) and leaving the session (switchTo).                *)

StartBind(b) ==
    /\ binds[b].st = "unused" /\ \A n \in 1..(b - 1) : binds[n].st # "unused"
    /\ binds' = [binds EXCEPT ![b] = [st |-> "waiting", fetch |-> NoFetch]]
    /\ query' = Joined(Binding(b))
    /\ link' = "opening" /\ connected' = FALSE

SwitchTo ==
    /\ ~view /\ view' = TRUE
    /\ \E b \in Binds : StartBind(b)
    /\ UNCHANGED <<server, wire, shown, buffer, recon, posts, faults>>

\* ensureBoundSession, before a message is sent without a live pump: the
\* window stays, and is hydrated once more.
Rebind ==
    /\ view /\ link = "off"
    /\ \E b \in Binds : StartBind(b)
    /\ UNCHANGED <<server, wire, view, shown, buffer, recon, posts, faults>>

\* A new window voids the pages asked for the old one.
Voided(r) == [r EXCEPT !.valid = FALSE]

\* Mutant: a page asked for the old window is taken for the new one.
NoPage_Kept(m) == m

NoPage(m) == 0

\* The reconciliation of the old binding finds another generation, and
\* returns without an effect.
SwitchAway ==
    /\ view /\ view' = FALSE
    /\ wire' = <<>> /\ link' = "off" /\ connected' = FALSE
    /\ window' = <<>> /\ cards' = NoCards /\ oldest' = 0
    /\ hasMore' = FALSE /\ more' = NoPage(more) /\ buffer' = <<>>
    /\ recon' = NoRecon
    /\ query' = [query EXCEPT !.for = @ \ {Reconcile}]
    /\ UNCHANGED <<server, binds, posts, faults>>

Unseen(f) == Span(f) \ Rendered
Oldest(f) == IF f.hi = 0 THEN 0 ELSE f.lo

\* Mutant: the snapshot takes the place of what the pump has shown meanwhile.
MergeBind_Replaces(b) ==
    LET f == binds[b].fetch
    IN /\ binds[b].st = "waiting" /\ Fetched(f)
       /\ binds' = [binds EXCEPT ![b] = [st |-> "done", fetch |-> NoFetch]]
       /\ IF view
          THEN /\ window' = InOrder(Span(f))
               /\ cards' = [e \in Prompts |-> IF cards[e] = "none" /\ e \in f.asks
                                              THEN "pending" ELSE cards[e]]
               /\ oldest' = Oldest(f) /\ hasMore' = (f.lo > 1)
               /\ more' = NoPage(more) /\ recon' = Voided(recon)
          ELSE UNCHANGED <<shown, recon>>
       /\ UNCHANGED <<server, wire, view, buffer, conn, query, posts, faults>>

\* The snapshot goes in front of what the pump has shown meanwhile.
MergeBind(b) ==
    LET f == binds[b].fetch
    IN /\ binds[b].st = "waiting" /\ Fetched(f)
       /\ binds' = [binds EXCEPT ![b] = [st |-> "done", fetch |-> NoFetch]]
       /\ IF view
          THEN /\ window' = InOrder(Unseen(f)) \o window
               /\ cards' = [e \in Prompts |-> IF cards[e] = "none" /\ e \in f.asks
                                              THEN "pending" ELSE cards[e]]
               /\ oldest' = Oldest(f) /\ hasMore' = (f.lo > 1)
               /\ more' = NoPage(more) /\ recon' = Voided(recon)
          ELSE UNCHANGED <<shown, recon>>
       /\ UNCHANGED <<server, wire, view, buffer, conn, query, posts, faults>>

FailBindPage(b) ==
    /\ binds[b].st = "waiting" /\ ~binds[b].fetch.page /\ faults < MaxFaults
    /\ faults' = faults + 1
    /\ binds' = [binds EXCEPT ![b] = [st |-> "done", fetch |-> NoFetch]]
    /\ query' = [query EXCEPT !.for = @ \ {Binding(b)}]
    /\ UNCHANGED <<server, wire, view, shown, buffer, conn, recon, posts>>

-----------------------------------------------------------------------------
(* The pump (startStreamPump, pumpStreamEvents).                           *)

\* The stream is subscribed; after the first time, what was missed is
\* fetched beside it.  An open that fails is tried again.
Open ==
    /\ link = "opening"
    /\ link' = "up" /\ connected' = TRUE /\ wire' = <<>>
    /\ IF connected
       THEN /\ recon' = [NoRecon EXCEPT !.st = "pages", !.pre = Rendered, !.valid = TRUE,
                                        !.prePending = CardsIn("pending"),
                                        !.preResolved = CardsIn("elsewhere")]
            /\ query' = Joined(Reconcile)
       ELSE UNCHANGED <<recon, query>>
    /\ UNCHANGED <<server, view, shown, buffer, binds, posts, faults>>

\* 401, 403 or 404: the pump gives up.
Refuse ==
    /\ link = "opening" /\ faults < MaxFaults
    /\ faults' = faults + 1
    /\ link' = "off"
    /\ UNCHANGED <<server, wire, view, shown, buffer, connected, query, binds, recon, posts>>

InBuffer(ev) == ev \in Range(buffer)

Receive ==
    /\ wire # <<>>
    /\ wire' = Tail(wire)
    /\ LET ev == Head(wire)
       IN CASE ev.kind = "item" ->
                 /\ buffer' = IF ev.item \in Rendered \/ InBuffer(ev) THEN buffer
                              ELSE Append(buffer, ev)
                 /\ UNCHANGED cards
            [] ev.kind = "asked" ->
                 /\ buffer' = IF cards[ev.prompt] # "none" \/ InBuffer(ev) THEN buffer
                              ELSE Append(buffer, ev)
                 /\ cards' = [cards EXCEPT ![ev.prompt] =
                                 IF @ = "elsewhere" /\ ~InBuffer(ev) THEN "pending" ELSE @]
            [] ev.kind = "resolved" ->
                 /\ cards' = [cards EXCEPT ![ev.prompt] =
                                 IF @ = "pending" THEN "elsewhere" ELSE @]
                 /\ UNCHANGED buffer
    /\ UNCHANGED <<server, view, window, oldest, hasMore, more, conn, query, binds, recon,
                   posts, faults>>

ItemsAt(at) == [n \in DOMAIN Picked(buffer, at) |-> Picked(buffer, at)[n].item]

\* Mutant: what was new when it was received is taken for new.
Fresh_Unchecked == ItemsAt({n \in DOMAIN buffer : buffer[n].kind = "item"})

\* What a merge has put in the window while it was buffered is not shown again.
Fresh == ItemsAt({n \in DOMAIN buffer : buffer[n].kind = "item" /\ buffer[n].item \notin Rendered})

Flush ==
    /\ buffer' = <<>>
    /\ window' = window \o Fresh
    /\ cards' = [e \in Prompts |-> IF cards[e] = "none" /\ InBuffer(Asked(e))
                                   THEN "pending" ELSE cards[e]]
    /\ UNCHANGED <<oldest, hasMore, more>>

Frame ==
    /\ buffer # <<>>
    /\ Flush
    /\ UNCHANGED <<server, wire, view, conn, query, binds, recon, posts, faults>>

\* The connection breaks, with what was on it; or the server closes it, after
\* everything was received.
Drop ==
    /\ link = "up"
    /\ link' = "dropped" /\ wire' = <<>>
    /\ Flush
    /\ UNCHANGED <<server, view, connected, query, binds, recon, posts, faults>>

ServerCloses ==
    /\ link = "up" /\ wire = <<>>
    /\ link' = "ended"
    /\ Flush
    /\ UNCHANGED <<server, wire, view, connected, query, binds, recon, posts, faults>>

\* The loop goes on when the reconciliation beside the pump has returned.
LoopGoesOn ==
    /\ link \in {"dropped", "ended"} /\ recon.st = "idle"
    /\ link' = IF link = "dropped" THEN "opening" ELSE "off"
    /\ UNCHANGED <<server, wire, view, shown, buffer, connected, query, binds, recon, posts, faults>>

-----------------------------------------------------------------------------
(* reconcileOnReconnect and rehydrateWindowOnReconnect.                    *)

ReconPage ==
    CASE recon.st = "window" -> Newest
      [] recon.st = "pages" /\ recon.pages = 1 -> Newest
      [] OTHER -> [lo |-> Before(recon.fetch.lo), hi |-> recon.fetch.hi]

ServeReconPage ==
    /\ recon.st # "idle" /\ ~recon.fetch.page
    /\ recon' = [recon EXCEPT !.fetch = WithPage(@, ReconPage)]
    /\ UNCHANGED <<server, wire, view, shown, buffer, conn, query, binds, posts, faults>>

FailReconPage ==
    /\ recon.st # "idle" /\ ~recon.fetch.page /\ faults < MaxFaults
    /\ faults' = faults + 1
    /\ recon' = NoRecon
    /\ query' = [query EXCEPT !.for = @ \ {Reconcile}]
    /\ UNCHANGED <<server, wire, view, shown, buffer, conn, binds, posts>>

\* Mutant: items received since the reconnect count as reached.
Covered_ByLiveItems == recon.fetch.lo = 1 \/ Span(recon.fetch) \cap Rendered # {}

Covered == recon.fetch.lo = 1 \/ Span(recon.fetch) \cap recon.pre # {}

AskOlder ==
    recon' = IF recon.pages < MaxPages
             THEN [recon EXCEPT !.pages = @ + 1, !.fetch.page = FALSE]
             ELSE [recon EXCEPT !.st = "window", !.fetch.page = FALSE]

\* Mutant: only cards that are missing are reconciled.
Reconciled_OnlyMissing(asks) ==
    [e \in Prompts |-> IF cards[e] = "none" /\ e \in asks THEN "pending" ELSE cards[e]]

\* Cards that changed while the snapshot was fetched are newer than it.
Reconciled(asks) ==
    [e \in Prompts |->
       CASE cards[e] = "pending" /\ e \in recon.prePending /\ e \notin asks -> "elsewhere"
         [] cards[e] = "elsewhere" /\ e \in recon.preResolved /\ e \in asks -> "pending"
         [] cards[e] = "none" /\ e \in asks -> "pending"
         [] OTHER -> cards[e]]

Backfill ==
    /\ window' = window \o InOrder(Unseen(recon.fetch))
    /\ cards' = Reconciled(recon.fetch.asks)
    /\ recon' = NoRecon
    /\ UNCHANGED <<oldest, hasMore, more>>

\* The window starts anew with the newest page; what came live stays.
Rehydrate ==
    LET f == recon.fetch
        live == Picked(window, {n \in DOMAIN window : window[n] \notin recon.pre})
    IN /\ window' = InOrder(Span(f) \ Range(live)) \o live
       /\ cards' = Reconciled(f.asks)
       /\ oldest' = Oldest(f) /\ hasMore' = (f.lo > 1)
       /\ more' = NoPage(more)
       /\ recon' = NoRecon

ReconArrives ==
    /\ recon.st # "idle" /\ Fetched(recon.fetch)
    /\ CASE ~recon.valid -> recon' = NoRecon /\ UNCHANGED shown
         [] recon.valid /\ recon.st = "window" -> Rehydrate
         [] recon.valid /\ recon.st = "pages" /\ Covered -> Backfill
         [] recon.valid /\ recon.st = "pages" /\ ~Covered -> AskOlder /\ UNCHANGED shown
    /\ UNCHANGED <<server, wire, view, buffer, conn, query, binds, posts, faults>>

-----------------------------------------------------------------------------
(* The user: scroll-up, a visible tab, a verdict.                          *)

LoadMoreHistory ==
    /\ view /\ oldest # 0 /\ more = 0 /\ hasMore
    /\ more' = oldest
    /\ UNCHANGED <<server, wire, view, window, cards, oldest, hasMore, buffer, conn, query,
                   binds, recon, posts, faults>>

OlderPageArrives ==
    LET page == [lo |-> Before(more), hi |-> more - 1]
    IN /\ more # 0 /\ more' = 0
       /\ window' = InOrder(Span(page) \ Rendered) \o window
       /\ oldest' = page.lo /\ hasMore' = (page.lo > 1)
       /\ UNCHANGED <<server, wire, view, cards, buffer, conn, query, binds, recon, posts, faults>>

OlderPageFails ==
    /\ more # 0 /\ more' = 0 /\ faults < MaxFaults
    /\ faults' = faults + 1 /\ hasMore' = FALSE
    /\ UNCHANGED <<server, wire, view, window, cards, oldest, buffer, conn, query, binds, recon,
                   posts>>

\* The listener is removed when the binding is aborted.
TabBecomesVisible ==
    /\ view /\ link # "off" /\ Peek \notin query.for
    /\ query' = Joined(Peek)
    /\ UNCHANGED <<server, wire, view, shown, buffer, conn, binds, recon, posts, faults>>

\* Bound: one verdict of a prompt is under way at a time.
SubmitApproval(e) ==
    /\ cards[e] = "pending" /\ e \notin posts
    /\ cards' = [cards EXCEPT ![e] = "answered"]
    /\ posts' = posts \cup {e}
    /\ UNCHANGED <<server, wire, view, window, oldest, hasMore, more, buffer, conn, query, binds,
                   recon, faults>>

VerdictDelivered(e) ==
    /\ e \in posts /\ posts' = posts \ {e}
    /\ TakeVerdict(e)
    /\ UNCHANGED <<view, shown, buffer, conn, query, binds, recon, faults>>

\* Before it reached the server, or with the answer on its way back.
VerdictFails(e, reached) ==
    /\ e \in posts /\ posts' = posts \ {e} /\ faults < MaxFaults
    /\ faults' = faults + 1
    /\ cards' = [cards EXCEPT ![e] = IF @ = "none" THEN @ ELSE "pending"]
    /\ IF reached THEN TakeVerdict(e) ELSE UNCHANGED <<server, wire>>
    /\ UNCHANGED <<view, window, oldest, hasMore, more, buffer, conn, query, binds, recon>>

-----------------------------------------------------------------------------
Server == CommitItem \/ \E e \in Prompts : \/ Park(e)
                                           \/ ResolveElsewhere(e, "cleared")
                                           \/ ResolveElsewhere(e, "decided")

Requests == \/ ServeSession \/ DeliverSession \/ FailSession
            \/ ServeReconPage \/ FailReconPage \/ ReconArrives
            \/ OlderPageArrives \/ OlderPageFails
            \/ \E b \in Binds : ServeBindPage(b) \/ FailBindPage(b) \/ MergeBind(b)
            \/ \E e \in Prompts : VerdictDelivered(e) \/ \E r \in BOOLEAN : VerdictFails(e, r)

Pump == Open \/ Refuse \/ Receive \/ Frame \/ Drop \/ ServerCloses \/ LoopGoesOn

User == \/ SwitchTo \/ SwitchAway \/ Rebind \/ LoadMoreHistory \/ TabBecomesVisible
        \/ \E e \in Prompts : SubmitApproval(e)

Next == Server \/ Requests \/ Pump \/ User

Spec == Init /\ [][Next]_vars

\* The client's own steps, and answers to requests; nothing is assumed of the
\* server, the user, or how long a stream lasts.
Fairness ==
    /\ WF_vars(ServeSession) /\ WF_vars(DeliverSession)
    /\ WF_vars(ServeReconPage) /\ WF_vars(ReconArrives)
    /\ WF_vars(\E b \in Binds : ServeBindPage(b)) /\ WF_vars(\E b \in Binds : MergeBind(b))
    /\ WF_vars(\E e \in Prompts : VerdictDelivered(e))
    /\ WF_vars(Open) /\ WF_vars(Receive) /\ WF_vars(Frame) /\ WF_vars(LoopGoesOn)

FairSpec == Spec /\ Fairness

-----------------------------------------------------------------------------
(* Properties.                                                             *)

\* No item is shown twice, although the pump, its buffer, the snapshot of
\* each binding, the reconciliation of each reconnect and scroll-up may all
\* bring it, in any order (flush, bindStream, reconcileOnReconnect).
EachItemOnce == IsInjective(window)

Coming == {i \in Items : \E ev \in Range(wire \o buffer) : ev = ItemEvent(i)}

\* A reconciliation that ends well leaves no hole after the items shown
\* before the gap: whatever committed since is shown or on its way, also if
\* it committed during the fetches (reconcileOnReconnect).
ReconnectClosesTheGap ==
    [][(ReconArrives /\ recon.valid /\ recon'.st = "idle" /\ link = "up")
       => \A i \in 1..last :
            (i >= oldest' /\ \A j \in recon.pre : i > j)
            => i \in Range(window') \cup Coming]_vars

Held == {i \in Items : i \in Rendered \/ ItemEvent(i) \in Range(buffer)}

\* An item the tab has, shown or waiting for its frame, leaves it only above
\* the scroll cursor: a binding, a reconnect that replaces the window and a
\* frame that overtakes them lose nothing that came live meanwhile
\* (bindStream, rehydrateWindowOnReconnect).
HeldItemsStay ==
    [][(view /\ view') => \A i \in Held : i >= oldest' => i \in Held']_vars

\* Scroll-up never moves the cursor past items it does not show, even when a
\* reconnect replaced the window while the page was fetched
\* (loadMoreHistory, historyGeneration).
ScrollUpLeavesNoGap ==
    [][OlderPageArrives => oldest'..(oldest - 1) \subseteq Range(window')]_vars

\* While a verdict is under way its card is not reopened or taken away by
\* an event or by a snapshot that does not know of it (submitApproval).
VerdictsStand ==
    [][\A e \in posts \cap posts' :
         (view /\ view' /\ cards[e] = "answered") => cards'[e] = "answered"]_vars

\* On a session that stays displayed, and whose stream is recycled again and
\* again as the ingress does, the cards that can be answered come to be
\* those that wait for an answer, whatever was missed, stale or failed.
CardsSettle ==
    (<>[]view /\ []<>(link = "opening")) => <>[](CardsIn("pending") = Parked)

Quiet == /\ view /\ link = "up" /\ wire = <<>> /\ buffer = <<>>
         /\ recon.st = "idle" /\ \A b \in Binds : binds[b].st # "waiting"

\* What the comment of reconcileOnReconnect says of the binding as well: an
\* item is caught by the stream or by the snapshot.
StreamOrSnapshotCatches ==
    (Quiet /\ faults = 0) => \A i \in 1..last : i >= oldest => i \in Rendered
=============================================================================
