--------------------------- MODULE DevicePresence ---------------------------
(***************************************************************************)
(* Which devices are here, from the muxers to an open page.  Each muxer    *)
(* client dials, resets its source in the registry and replays the muxer's *)
(* attached set; the registry merges the sources and collects events under *)
(* its lock, to be published once it is released; the bus drops a          *)
(* subscriber whose buffer is full; the websocket handler closes on a drop *)
(* or a broken socket; the page subscribes, fetches the list, and replays  *)
(* over it what arrived meanwhile.                                         *)
(*                                                                         *)
(* An edge is a device on a transport; timestamps and identities are left  *)
(* out.  The muxers are external: one attachment per edge at a time.  The  *)
(* page (ui/src/ws, ui/src/stores) is the consumer the events are for.     *)
(***************************************************************************)
EXTENDS Naturals, Sequences, SequencesExt, FiniteSets

CONSTANTS
    Sources,     \* the muxers that are dialled
    Udids,
    Buffer,      \* subscriberBuffer
    Scenes       \* what each muxer can ever see, with a bound on the moves: devices
                 \* plugged in or out, connections lost, updates announced

ASSUME PresenceAssumption ==
    /\ Buffer \in Nat \ {0} /\ IsFiniteSet(Sources) /\ IsFiniteSet(Udids)
    /\ \A c \in Scenes : c.reach \in [Sources -> SUBSET (Udids \X {"usb", "wifi"})] /\ c.moves \in Nat

Transports == {"usb", "wifi"}
Edges == Udids \X Transports
Publishers == Sources \cup {"enrich"}
Hidden == [listed |-> FALSE, t |-> {}]

VARIABLES
    plugged,   \* what each muxer has attached now
    conn,      \* Client.Run: "down", "dialled", "listening" or "broken" (not noticed yet)
    stream,    \* the Listen connection: messages the client has not read
    edges,     \* Registry.sources
    order,     \* Registry.order
    pend,      \* events collected under the lock and not yet published
    backed,    \* knownUDIDs: devices with a version, listed though they are not here
    sub,       \* the page's subscription
    page,      \* its socket and its device store
    raced,     \* history: devices two publishers had events for at once, or whose card changed
               \* with no event, until a list is fetched with none of theirs on the way
    reach, moves   \* of the scene: its reach, and the moves left

muxVars == <<plugged, conn, stream>>
regVars == <<edges, order, pend, raced, backed>>
pageVars == <<sub, page>>
vars == <<muxVars, regVars, pageVars, reach, moves>>

Kinds == {"attached", "detached", "updated"}
NoSub == [open |-> FALSE, buf |-> << >>, dropped |-> FALSE]

Messages == [typ : {"attached", "detached"}, e : Edges]
Events == [typ : Kinds, u : Udids, t : Transports \cup {"none"}, now : SUBSET Transports]
Views == [listed : BOOLEAN, t : SUBSET Transports]
Stores == [Udids -> Views]

TypeOK ==
    /\ plugged \in [Sources -> SUBSET Edges] /\ edges \in [Sources -> SUBSET Edges]
    /\ conn \in [Sources -> {"down", "dialled", "listening", "broken"}]
    /\ stream \in [Sources -> Seq(Messages)]
    /\ order \subseteq Udids /\ raced \subseteq Udids /\ backed \subseteq Udids
    /\ pend \in [Publishers -> Seq(Events)]
    /\ sub \in [open : BOOLEAN, buf : Seq(Events), dropped : BOOLEAN] /\ Len(sub.buf) <= Buffer
    /\ page \in [at : {"off", "hello", "asked", "live", "refused", "stale"}, dev : Stores, snap : Stores, queued : Seq(Events)]
    /\ \E c \in Scenes : reach = c.reach /\ moves \in 0..c.moves

Move == moves > 0 /\ moves' = moves - 1

-----------------------------------------------------------------------------
(* The registry: mergedLocked and what a client is told                    *)

Present(es, u, t) == \E s \in Sources : <<u, t>> \in es[s]
Merged(es, u) == {t \in Transports : Present(es, u, t)}

\* Devices(): the live table in its order, then the offline shells.
Listed(es, ord, u) == (u \in ord /\ Merged(es, u) # {}) \/ u \in backed
Shown(u) == [listed |-> Listed(edges, order, u), t |-> IF u \in order THEN Merged(edges, u) ELSE {}]

Event(typ, u, t, now) == [typ |-> typ, u |-> u, t |-> t, now |-> now]

Empty == [u \in Udids |-> Hidden]
\* Until it is back, and if its refresh then fails, the page shows what it had.
Off(dev) == [at |-> "off", dev |-> dev, snap |-> Empty, queued |-> << >>]

Init ==
    /\ plugged = [s \in Sources |-> {}]
    /\ conn = [s \in Sources |-> "down"] /\ stream = [s \in Sources |-> << >>]
    /\ edges = [s \in Sources |-> {}] /\ order = {} /\ raced = {}
    /\ pend = [p \in Publishers |-> << >>]
    /\ sub = NoSub /\ page = Off(Empty) /\ backed \in SUBSET Udids
    /\ \E c \in Scenes : reach = c.reach /\ moves = c.moves

\* Two goroutines hold events of one device: either may publish first.
Races(p, evs) ==
    {u \in Udids : /\ \E i \in DOMAIN evs : evs[i].u = u
                   /\ \E q \in Publishers \ {p} : \E i \in DOMAIN pend[q] : pend[q][i].u = u}

Collect(p, evs, lost) ==
    /\ pend' = [pend EXCEPT ![p] = evs]
    /\ raced' = raced \cup Races(p, evs) \cup lost
    /\ UNCHANGED backed

-----------------------------------------------------------------------------
(* The muxer client                                                        *)

Idle(s) == pend[s] = << >>     \* the client's goroutine publishes before it reads on

\* dial and Listen: the muxer will replay what it has attached.
Dial(s) ==
    /\ conn[s] = "down"
    /\ conn' = [conn EXCEPT ![s] = "dialled"]
    /\ \E q \in SetToSeqs(plugged[s]) :
          stream' = [stream EXCEPT ![s] = [i \in DOMAIN q |-> [typ |-> "attached", e |-> q[i]]]]
    /\ UNCHANGED <<plugged, regVars, pageVars, moves>>

ResetEdges(s) == {}

AfterReset(es) == {u \in order : Merged(es, u) # {}}

\* Registry.reset: events for the transports no other source holds; no event
\* puts an offline card back.
Reset(s) ==
    /\ conn[s] = "dialled" /\ Idle(s)
    /\ LET es == [edges EXCEPT ![s] = ResetEdges(s)]
           gone == {e \in edges[s] : ~Present(es, e[1], e[2])}
       IN \E q \in SetToSeqs(gone) :
          /\ edges' = es /\ order' = AfterReset(es)
          /\ Collect(s, [i \in DOMAIN q |-> Event("detached", q[i][1], q[i][2], Merged(es, q[i][1]))],
                     {u \in backed : u \in order /\ Merged(es, u) = {}})
    /\ conn' = [conn EXCEPT ![s] = "listening"]
    /\ UNCHANGED <<plugged, stream, pageVars, moves>>

SetEdge(s, e) == [edges EXCEPT ![s] = @ \cup {e}]
ClearEdge(s, e) == [edges EXCEPT ![s] = @ \ {e}]

OfflineShell(u) == IF u \in backed THEN <<Event("updated", u, "none", {})>> ELSE << >>

Attach(s, e) ==
    LET u == e[1]  es == SetEdge(s, e) IN
    /\ edges' = es
    /\ IF ~Present(edges, u, e[2])
       THEN order' = order \cup {u} /\ Collect(s, <<Event("attached", u, e[2], Merged(es, u))>>, {})
       ELSE UNCHANGED <<order, pend, raced, backed>>

Detach(s, e) ==
    LET u == e[1]  es == ClearEdge(s, e) IN
    /\ edges' = es
    /\ IF Present(edges, u, e[2]) /\ ~Present(es, u, e[2])
       THEN /\ order' = IF Merged(es, u) = {} THEN order \ {u} ELSE order
            /\ Collect(s, <<Event("detached", u, e[2], Merged(es, u))>>
                          \o (IF Merged(es, u) = {} THEN OfflineShell(u) ELSE << >>), {})
       ELSE UNCHANGED <<order, pend, raced, backed>>

\* listen reads one message; Registry.apply folds it in.
Listen(s) ==
    /\ conn[s] \in {"listening", "broken"} /\ Idle(s) /\ stream[s] # << >>
    /\ LET m == Head(stream[s]) IN
       IF m.typ = "attached" THEN Attach(s, m.e) ELSE Detach(s, m.e)
    /\ stream' = [stream EXCEPT ![s] = Tail(@)]
    /\ UNCHANGED <<plugged, conn, pageVars, moves>>

\* The read fails: messages in the socket may have been read first, or not.
ListenEnds(s) ==
    /\ conn[s] = "broken" /\ Idle(s)
    /\ conn' = [conn EXCEPT ![s] = "down"] /\ stream' = [stream EXCEPT ![s] = << >>]
    /\ UNCHANGED <<plugged, regVars, pageVars, moves>>

\* The muxer goes away, or Reread (a rescan) closes the connection.
Break(s) ==
    /\ conn[s] = "listening" /\ Move
    /\ conn' = [conn EXCEPT ![s] = "broken"]
    /\ UNCHANGED <<plugged, stream, regVars, pageVars>>

\* A cable or a network comes or goes; a listening client is told.
Plug(s, e) ==
    /\ Move
    /\ plugged' = [plugged EXCEPT ![s] = IF e \in @ THEN @ \ {e} ELSE @ \cup {e}]
    /\ stream' = IF conn[s] \in {"dialled", "listening"}
                 THEN [stream EXCEPT ![s] = Append(@, [typ |-> IF e \in plugged[s] THEN "detached" ELSE "attached",
                                                       e |-> e])]
                 ELSE stream
    /\ UNCHANGED <<conn, regVars, pageVars>>

\* Enrich and AnnounceBackup: the merged device as it is under the lock.
Update(u) ==
    /\ pend["enrich"] = << >> /\ Listed(edges, order, u) /\ Move
    /\ Collect("enrich", <<Event("updated", u, "none", Merged(edges, u))>>, {})
    /\ UNCHANGED <<muxVars, edges, order, pageVars>>

\* A commit, an adoption or a deletion gives a device its first version or takes
\* its last: Devices() reads that each time, and no device event tells of it.
VersionsChange(u) ==
    /\ Move
    /\ backed' = IF u \in backed THEN backed \ {u} ELSE backed \cup {u}
    /\ raced' = raced \cup ({u} \ order)
    /\ UNCHANGED <<muxVars, edges, order, pend, pageVars>>

-----------------------------------------------------------------------------
(* The bus, the websocket handler and the page                             *)

Overflow(ev) == [sub EXCEPT !.dropped = TRUE]

\* Bus.Publish never waits for a subscriber.
Publish(p) ==
    /\ pend[p] # << >>
    /\ pend' = [pend EXCEPT ![p] = Tail(@)]
    /\ sub' = IF ~sub.open THEN sub
              ELSE IF Len(sub.buf) < Buffer THEN [sub EXCEPT !.buf = Append(@, Head(pend[p]))]
              ELSE Overflow(Head(pend[p]))
    /\ UNCHANGED <<muxVars, edges, order, raced, backed, page, moves>>

\* Handler: subscribed before hello; on hello the page starts its refresh.
Connect ==
    /\ page.at = "off"
    /\ sub' = [NoSub EXCEPT !.open = TRUE] /\ page' = [page EXCEPT !.at = "hello"]
    /\ UNCHANGED <<muxVars, regVars, moves>>

\* An event of u is on its way to the page, or waits there.
Coming(u) == \E evs \in {page.queued, sub.buf} \cup {pend[p] : p \in Publishers} :
                \E i \in DOMAIN evs : evs[i].u = u

\* GET /api/devices is answered.
FetchDevices ==
    /\ page.at = "hello"
    /\ page' = [page EXCEPT !.at = "asked", !.snap = [u \in Udids |-> Shown(u)]]
    /\ raced' = {u \in raced : Coming(u)}
    /\ UNCHANGED <<muxVars, edges, order, pend, backed, sub, moves>>

\* It fails: refreshAll keeps the last list, under a badge that says online.
FetchFails ==
    /\ page.at = "hello" /\ Move
    /\ page' = [page EXCEPT !.at = "refused"]
    /\ UNCHANGED <<muxVars, regVars, sub>>

\* The store: upsert and removeTransport.
Dispatched(dev, ev) ==
    LET d == dev[ev.u] IN
    IF ev.typ # "detached" THEN [dev EXCEPT ![ev.u] = [listed |-> TRUE, t |-> ev.now]]
    ELSE IF ~d.listed THEN dev
    ELSE [dev EXCEPT ![ev.u] = IF d.t \ {ev.t} = {} THEN Hidden ELSE [d EXCEPT !.t = @ \ {ev.t}]]

\* Mutation: what arrived during the refresh is thrown away.
ReplayedNone(dev, evs) == dev
Replayed(dev, evs) ==
    LET store[i \in 0..Len(evs)] == IF i = 0 THEN dev ELSE Dispatched(store[i - 1], evs[i])
    IN store[Len(evs)]

\* refreshAll has settled, and what waited is replayed.
Refreshed ==
    /\ \/ /\ page.at = "asked"
          /\ page' = [page EXCEPT !.at = "live", !.dev = Replayed(page.snap, page.queued), !.queued = << >>,
                                  !.snap = Empty]
       \/ /\ page.at = "refused"
          /\ page' = [page EXCEPT !.at = "stale", !.dev = Replayed(page.dev, page.queued), !.queued = << >>]
    /\ UNCHANGED <<muxVars, regVars, sub, moves>>

\* One event reaches the page; during the refresh it waits.
Deliver ==
    /\ sub.open /\ sub.buf # << >>
    /\ sub' = [sub EXCEPT !.buf = Tail(@)]
    /\ page' = IF page.at \in {"live", "stale"} THEN [page EXCEPT !.dev = Dispatched(@, Head(sub.buf))]
                                                ELSE [page EXCEPT !.queued = Append(@, Head(sub.buf))]
    /\ UNCHANGED <<muxVars, regVars, moves>>

\* Mutation: the handler returns and leaves the socket open.
ClosedQuietly == sub' = NoSub /\ UNCHANGED page
Closed == sub' = NoSub /\ page' = Off(page.dev)

\* "client too slow", or the socket breaks: the page comes back by itself.
DropSlow == sub.dropped /\ Closed /\ UNCHANGED <<muxVars, regVars, moves>>
SocketBreaks == sub.open /\ Move /\ Closed /\ UNCHANGED <<muxVars, regVars>>

-----------------------------------------------------------------------------

Client(s) == Dial(s) \/ Reset(s) \/ Listen(s) \/ ListenEnds(s)

Steps ==
    \/ \E s \in Sources : Client(s) \/ Break(s) \/ \E e \in reach[s] : Plug(s, e)
    \/ \E u \in Udids : Update(u) \/ VersionsChange(u)
    \/ \E p \in Publishers : Publish(p)
    \/ Connect \/ FetchDevices \/ FetchFails \/ Refreshed \/ Deliver \/ DropSlow \/ SocketBreaks

Next == Steps /\ UNCHANGED reach

\* Every goroutine goes on, a lost connection is dialled again; nothing makes a
\* device move, a muxer fail, a socket break or a request go wrong.
Fairness ==
    /\ \A s \in Sources : WF_vars(Client(s) /\ UNCHANGED reach)
    /\ \A p \in Publishers : WF_vars(Publish(p) /\ UNCHANGED reach)
    /\ WF_vars((Connect \/ FetchDevices \/ Refreshed) /\ UNCHANGED reach)
    /\ WF_vars(Deliver /\ UNCHANGED reach) /\ WF_vars(DropSlow /\ UNCHANGED reach)

Spec == Init /\ [][Next]_vars /\ Fairness

-----------------------------------------------------------------------------
(* Properties                                                              *)

\* Devices() walks the display order: a device with a live transport is in it,
\* and one that left is not, whatever sources reset and replay meanwhile.
OrderIsPresent == \A u \in Udids : u \in order <=> Merged(edges, u) # {}

\* Once a client has read all its muxer sent, its source says what the muxer
\* has: no phantom from before a reconnect, no device missed.
SourceIsCurrent ==
    \A s \in Sources : conn[s] = "listening" /\ stream[s] = << >> => edges[s] = plugged[s]

CaughtUp == /\ page.at \in {"live", "stale"} /\ sub.open /\ sub.buf = << >> /\ ~sub.dropped
            /\ \A p \in Publishers : pend[p] = << >>

\* A page that has nothing left to receive, and whose last refresh was answered,
\* shows what GET /api/devices answers, for every device but those whose events
\* two goroutines held at once or whose versions came or went while it was away,
\* and for those too from the next list fetched with none of their events about.
PageShowsDevices == CaughtUp /\ page.at = "live" => \A u \in Udids \ raced : page.dev[u] = Shown(u)

\* Once nothing moves any more, every open page catches up for good: a dropped
\* subscriber and a broken connection are both recovered from.
Converges == <>[](CaughtUp /\ \A s \in Sources : edges[s] = plugged[s])

\* What apply's comment says of a device with backups: its card turns offline,
\* it does not vanish.  The reset of a reconnect sends no such event.
CardStays == CaughtUp => \A u \in backed : page.dev[u].listed
-----------------------------------------------------------------------------
(* The inductive invariants behind the theorems                            *)

\* What a client still has to read makes its source say what the muxer has:
\* the last message about an edge tells, and where there is none the source
\* already does; a client that has dialled will start from nothing.
StreamTrue ==
    \A s \in Sources : conn[s] \in {"dialled", "listening"} =>
        \A e \in Edges :
            LET about == {i \in DOMAIN stream[s] : stream[s][i].e = e} IN
            /\ about = {} => (e \in plugged[s] <=> conn[s] = "listening" /\ e \in edges[s])
            /\ \A i \in about : (\A j \in about : j <= i) =>
                  (e \in plugged[s] <=> stream[s][i].typ = "attached")

About(evs, u) == {i \in DOMAIN evs : evs[i].u = u}
Detaches(evs, u) == \A i \in About(evs, u) : evs[i].typ = "detached"
Carries(p, u) == About(pend[p], u) # {}
\* Nobody but p holds events of u.
Alone(p, u) == \A q \in Publishers \ {p} : ~Carries(q, u)

\* Replaying these events over the list as it is now changes nothing of u, and
\* if they only take transports away, none of those is there.
Absorbed(evs, u) ==
    /\ Replayed([v \in Udids |-> Shown(v)], evs)[u] = Shown(u)
    /\ Detaches(evs, u) => \A i \in About(evs, u) : evs[i].t \notin Shown(u).t

\* What is on its way to the page, or waits there, brings it up to date.
OnItsWay(p, u) ==
    CASE page.at = "hello" -> Absorbed(page.queued \o (sub.buf \o pend[p]), u)
      [] page.at = "asked" -> Replayed(page.snap, page.queued \o (sub.buf \o pend[p]))[u] = Shown(u)
      [] page.at = "live" -> Replayed(page.dev, sub.buf \o pend[p])[u] = Shown(u)
      [] OTHER -> TRUE

\* One publisher at a time has events of a device that was not raced, they
\* are absorbed by the list as it is, and with what is ahead of them they
\* bring the page up to date.
EventsTrue ==
    \A u \in Udids \ raced :
        /\ \A p, q \in Publishers : Carries(p, u) /\ Carries(q, u) => p = q
        /\ \A p \in Publishers : Alone(p, u) =>
              Absorbed(pend[p], u) /\ (~sub.dropped => OnItsWay(p, u))

\* Only an offline shell or an update stands behind other events, and a page
\* that is away or live has none waiting.
QueuesTrue ==
    /\ \A p \in Publishers : \A i, j \in DOMAIN pend[p] :
          i < j /\ pend[p][j].typ = "detached" => pend[p][i].typ = "detached"
    /\ sub.open <=> page.at # "off"
    /\ ~sub.open => sub = NoSub
    /\ page.at \in {"off", "live", "stale"} => page.queued = << >>

PresenceInv == OrderIsPresent /\ StreamTrue /\ QueuesTrue /\ EventsTrue
=============================================================================
