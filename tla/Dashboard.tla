----------------------------- MODULE Dashboard -----------------------------
(* The dashboard of the web application (components/market-dashboard.tsx):   *)
(* lookups of stocks that overtake each other, the address bar and history   *)
(* of the browser, and the hook that keeps a WebSocket to the realtime feed  *)
(* of the stock that is shown.  React runs the hook's effect some time after *)
(* the state it depends on has changed.                                      *)
EXTENDS Integers, Sequences, FiniteSets

CONSTANTS
  ShownSymbols, NoStock,        \* NoStock: the launcher, where no stock is shown
  Invalid,                      \* an input that names no stock
  MaxRetries,                   \* reconnections until the hook gives up (5)
  MaxLookups, MaxSockets, MaxHistory, MaxFlips  \* bounds

DashboardAssumption ==
  /\ NoStock \notin ShownSymbols /\ Invalid \notin ShownSymbols /\ NoStock # Invalid
  /\ {MaxRetries, MaxLookups, MaxSockets, MaxHistory, MaxFlips} \subseteq Nat /\ MaxHistory > 0

VARIABLES
  pageSymbol, searching,  \* state of MarketDashboard
  requestId,              \* lookupRequestId
  inflight,               \* the lookups whose snapshot is on its way: [id, symbol, push]
  entries, position,      \* the history of the browser: the symbol of each address
  installed,              \* the symbol the effect of the hook was last run for
  reconnect,              \* reconnectVersion has changed since
  pageStatus, quote,      \* state of the hook; a quote is the symbol it is of
  socket,                 \* the effect's socket, 0 if it has none
  sockets,                \* all sockets: their state and the symbol they stream
  timer, retryCount,
  online, told,           \* navigator.onLine, and what the listeners were last told
  flips                   \* bound: how often the connection was lost or found

lookup == <<pageSymbol, searching, requestId, inflight, entries, position>>
feed == <<installed, reconnect, pageStatus, quote, socket, sockets, timer, retryCount>>
network == <<online, told, flips>>
dashboardVars == <<lookup, feed, network>>

DashboardInit ==
  /\ pageSymbol = NoStock /\ searching = FALSE /\ requestId = 0 /\ inflight = {}
  /\ entries = <<NoStock>> /\ position = 1
  /\ installed = NoStock /\ reconnect = FALSE /\ pageStatus = "unavailable" /\ quote = NoStock
  /\ socket = 0 /\ sockets = <<>> /\ timer = FALSE /\ retryCount = 0
  /\ online = TRUE /\ told = TRUE /\ flips = 0

-----------------------------------------------------------------------------
(* Lookups                                                                   *)

\* lookupStock, until it awaits: the lookup before it is given up, even by an invalid input.
Lookup(input, push) ==
  /\ requestId < MaxLookups
  /\ requestId' = requestId + 1
  /\ IF input = Invalid THEN UNCHANGED <<searching, inflight>>
     ELSE /\ searching' = TRUE
          /\ inflight' = inflight \cup {[id |-> requestId + 1, symbol |-> input, push |-> push]}
  /\ UNCHANGED pageSymbol

\* The form and the buttons are disabled while searching, Enter on a suggestion is not.
Search(input) ==
  /\ input = Invalid => ~searching
  /\ Lookup(input, TRUE)
  /\ UNCHANGED <<entries, position, feed, network>>

\* A link with ?symbol= opens the page, before anything else happens.
OpenLink(input) ==
  /\ requestId = 0 /\ Len(entries) = 1 /\ entries[1] = NoStock
  /\ Lookup(input, FALSE)
  /\ entries' = <<input>>
  /\ UNCHANGED <<position, feed, network>>

\* syncResultUrl and clearResultUrl do nothing when the address is there already.
PushUrl(target) ==
  IF entries[position] = target THEN UNCHANGED <<entries, position>>
  ELSE /\ position < MaxHistory
       /\ entries' = Append(SubSeq(entries, 1, position), target)
       /\ position' = position + 1

\* Only the latest lookup may still change the page.
IsLatest(l) == l.id = requestId

Found(l) ==
  /\ l \in inflight /\ inflight' = inflight \ {l}
  /\ IF IsLatest(l)
     THEN /\ pageSymbol' = l.symbol /\ searching' = FALSE
          /\ IF l.push THEN PushUrl(l.symbol) ELSE UNCHANGED <<entries, position>>
     ELSE UNCHANGED <<pageSymbol, searching, entries, position>>
  /\ UNCHANGED <<requestId, feed, network>>

\* An error, a timeout or the abort of a lookup that was given up
NotFound(l) ==
  /\ l \in inflight /\ inflight' = inflight \ {l}
  /\ searching' = (searching /\ ~IsLatest(l))
  /\ UNCHANGED <<pageSymbol, requestId, entries, position, feed, network>>

Reset(push) ==
  /\ requestId < MaxLookups /\ requestId' = requestId + 1
  /\ pageSymbol' = NoStock /\ searching' = FALSE
  /\ IF push THEN PushUrl(NoStock) ELSE UNCHANGED entries
  /\ UNCHANGED <<inflight, feed, network>>

NewSearch == pageSymbol # NoStock /\ Reset(TRUE)

\* popstate: an address without a symbol resets, the shown symbol's is passed over.
PopState(to) ==
  /\ to \in DOMAIN entries /\ to # position
  /\ position' = to
  /\ IF entries[to] = NoStock THEN Reset(FALSE)
     ELSE /\ UNCHANGED <<entries, feed, network>>
          /\ IF entries[to] = pageSymbol THEN UNCHANGED <<pageSymbol, searching,
                                                          requestId, inflight>>
             ELSE Lookup(entries[to], FALSE)

-----------------------------------------------------------------------------
(* useRealtimeQuote                                                          *)

\* readyState < CLOSING.  A socket that the page closed is "dropped" if it had not opened
\* and "closing" if it had, until its close event: events may still be on their way from it.
Live(id) == sockets[id].state \in {"connecting", "open"}

\* disconnectSocket on what the effect holds
Disconnected == [id \in DOMAIN sockets |->
  IF id # socket \/ ~Live(id) THEN sockets[id]
  ELSE [sockets[id] EXCEPT !.state = IF @ = "open" THEN "closing" ELSE "dropped"]]

\* connect, for a symbol, the sockets there are and the one that is held; `waiting` is the
\* status until it opens.  An address that no socket can be made of is left out.
Connect(target, there, held, waiting) ==
  IF ~online THEN pageStatus' = "offline" /\ socket' = held /\ sockets' = there
  ELSE /\ Len(there) < MaxSockets
       /\ pageStatus' = waiting
       /\ sockets' = Append(there, [state |-> "connecting", symbol |-> target])
       /\ socket' = Len(there) + 1

\* The cleanup of the last effect and the effect of this one.
RunEffect ==
  /\ installed # pageSymbol \/ reconnect
  /\ installed' = pageSymbol /\ reconnect' = FALSE
  /\ quote' = NoStock /\ timer' = FALSE /\ retryCount' = 0
  /\ IF pageSymbol = NoStock THEN pageStatus' = "unavailable" /\ socket' = 0 /\ sockets' = Disconnected
     ELSE Connect(pageSymbol, Disconnected, 0, "connecting")
  /\ UNCHANGED <<lookup, network>>

\* The button that is shown while the feed is unavailable
Reconnect ==
  /\ pageSymbol # NoStock /\ pageStatus = "unavailable" /\ ~reconnect
  /\ reconnect' = TRUE
  /\ UNCHANGED <<lookup, installed, pageStatus, quote, socket, sockets, timer,
                 retryCount, network>>

\* Mutant: the events of a socket that was replaced are heard.
HeardAlways(id) == TRUE

\* The guard of the three handlers: the socket is still the one of a running effect.
Heard(id) == socket = id

Opened(id) ==
  /\ id \in DOMAIN sockets /\ sockets[id].state \in {"connecting", "dropped"}
  /\ sockets' = [sockets EXCEPT ![id].state = IF @ = "connecting" THEN "open" ELSE "closing"]
  /\ IF Heard(id) THEN pageStatus' = "live" /\ retryCount' = 0 ELSE UNCHANGED <<pageStatus, retryCount>>
  /\ UNCHANGED <<lookup, installed, reconnect, quote, socket, timer, network>>

\* A quote, or an error message, which leaves the socket open
Message(id, kind) ==
  /\ id \in DOMAIN sockets /\ sockets[id].state \in {"open", "closing"}
  /\ IF ~Heard(id) THEN UNCHANGED <<pageStatus, quote>>
     ELSE IF kind = "quote" THEN quote' = sockets[id].symbol /\ pageStatus' = "live"
     ELSE pageStatus' = "unavailable" /\ UNCHANGED quote
  /\ UNCHANGED <<lookup, installed, reconnect, socket, sockets, timer, retryCount,
                 network>>

\* The close event, after the server or the network ended the connection, with one of the
\* terminal codes or another, or after the page did.
Closed(id, terminal) ==
  /\ id \in DOMAIN sockets /\ sockets[id].state # "closed"
  /\ sockets' = [sockets EXCEPT ![id].state = "closed"]
  /\ IF ~Heard(id) THEN UNCHANGED <<pageStatus, timer, retryCount>>
     ELSE IF ~online THEN pageStatus' = "offline" /\ UNCHANGED <<timer, retryCount>>
     ELSE IF terminal \/ retryCount >= MaxRetries
          THEN pageStatus' = "unavailable" /\ UNCHANGED <<timer, retryCount>>
     ELSE pageStatus' = "reconnecting" /\ timer' = TRUE /\ retryCount' = retryCount + 1
  /\ UNCHANGED <<lookup, installed, reconnect, quote, socket, network>>

\* The timer of a reconnection; it leaves the status as it is.
Retry ==
  /\ timer /\ timer' = FALSE
  /\ Connect(installed, sockets, socket, pageStatus)
  /\ UNCHANGED <<lookup, installed, reconnect, quote, retryCount, network>>

Flip ==
  /\ online = told /\ flips < MaxFlips /\ flips' = flips + 1
  /\ online' = ~online
  /\ UNCHANGED <<lookup, feed, told>>

\* handleOffline and handleOnline, while an effect is installed
TellOffline ==
  /\ told /\ ~online /\ told' = FALSE
  /\ IF installed = NoStock THEN UNCHANGED feed
     ELSE /\ pageStatus' = "offline" /\ quote' = NoStock /\ timer' = FALSE
          /\ socket' = 0 /\ sockets' = Disconnected
          /\ UNCHANGED <<installed, reconnect, retryCount>>
  /\ UNCHANGED <<lookup, online, flips>>

TellOnline ==
  /\ ~told /\ online /\ told' = TRUE
  /\ IF installed = NoStock THEN UNCHANGED feed
     ELSE /\ timer' = FALSE /\ retryCount' = 0
          /\ Connect(installed, Disconnected, 0, "connecting")
          /\ UNCHANGED <<installed, reconnect, quote>>
  /\ UNCHANGED <<lookup, online, flips>>

-----------------------------------------------------------------------------
DashboardNext ==
  \/ \E input \in ShownSymbols \cup {Invalid} : Search(input) \/ OpenLink(input)
  \/ \E l \in inflight : Found(l) \/ NotFound(l)
  \/ NewSearch
  \/ \E to \in 1 .. MaxHistory : PopState(to)
  \/ RunEffect \/ Reconnect \/ Retry \/ Flip \/ TellOffline \/ TellOnline
  \/ \E id \in 1 .. MaxSockets :
       \/ Opened(id)
       \/ \E kind \in {"quote", "error"} : Message(id, kind)
       \/ \E terminal \in BOOLEAN : Closed(id, terminal)

DashboardSpec == DashboardInit /\ [][DashboardNext]_dashboardVars

-----------------------------------------------------------------------------
DashboardTypeOK ==
  /\ pageSymbol \in ShownSymbols \cup {NoStock} /\ searching \in BOOLEAN /\ requestId \in 0 .. MaxLookups
  /\ inflight \subseteq [id : 1 .. MaxLookups, symbol : ShownSymbols, push : BOOLEAN]
  /\ position \in DOMAIN entries
  /\ installed \in ShownSymbols \cup {NoStock} /\ quote \in ShownSymbols \cup {NoStock}
  /\ pageStatus \in {"connecting", "live", "reconnecting", "offline", "unavailable"}
  /\ socket \in 0 .. Len(sockets) /\ retryCount \in 0 .. MaxRetries
  /\ reconnect \in BOOLEAN /\ timer \in BOOLEAN /\ online \in BOOLEAN /\ told \in BOOLEAN

\* The feed fits what is shown and never waits for nothing: however symbols change, the
\* connection flips, sockets close and late events of replaced ones arrive, only the effect's
\* own socket is alive, of the symbol it was installed for, and so is the quote; "live" has an
\* open socket, a feed that connects has a socket or a timer to do it, and it is offline only
\* until it is told that it is not (market-dashboard.tsx:125-238).
FeedIsCurrent ==
  /\ \A id \in DOMAIN sockets : Live(id) => id = socket /\ sockets[id].symbol = installed
  /\ quote \in {NoStock, installed}
  /\ timer => socket = 0 \/ ~Live(socket)
  /\ pageStatus = "live" => socket # 0 /\ sockets[socket].state = "open"
  /\ pageStatus \in {"connecting", "reconnecting"} => timer \/ (socket # 0 /\ Live(socket))
  /\ pageStatus = "offline" => ~(online /\ told)
=============================================================================
