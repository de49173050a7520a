--------------------------- MODULE PortfolioSync ---------------------------
(* Synchronisations of one broker account (services/portfolio.py sync) and the
   transaction that stores a snapshot of its holdings (repositories/
   sqlalchemy.py SqlAlchemyPortfolioRepository). The account is read, its row is
   updated or inserted by the flush that precedes the DELETE, the old holdings
   are deleted and the new ones inserted. Transactions are READ COMMITTED: a
   statement sees the rows committed when it starts, waits for the rows that
   another transaction has locked, and skips those that are gone by then. *)
EXTENDS Naturals, Sequences

CONSTANTS Syncs,         \* requests that may synchronise the account at a time
          HeldSymbols,
          Portfolios,    \* sequence of the sets of symbols the account holds over time
          MaxSyncFaults  \* bound: failures of the broker or of the database

PortfolioAssumption ==
  /\ Portfolios \in Seq(SUBSET HeldSymbols) /\ Portfolios # <<>>
  /\ MaxSyncFaults \in Nat

Moments == DOMAIN Portfolios
Row == [symbol : HeldSymbols, taken : Moments]

VARIABLES
  syncNow,   \* how far the account's real holdings have moved
  account,   \* the account's committed row: the moment of its snapshot, 0 if none
  holdings,  \* committed holding rows
  syncPc, taken, found, syncSeen, syncGone, syncFaults

\* of each synchronisation: its step, the moment its snapshot was taken,
\* whether it saw the account's row, the rows its DELETE started from and the
\* rows it has deleted
portfolioVars == <<syncNow, account, holdings, syncPc, taken, found, syncSeen, syncGone,
                   syncFaults>>

Steps == {"idle", "fetch", "read", "touch", "delete", "deleting", "insert"}
Locked == {"delete", "deleting", "insert"}

PortfolioTypeOK ==
  /\ syncNow \in Moments /\ account \in Moments \cup {0}
  /\ holdings \subseteq Row
  /\ syncPc \in [Syncs -> Steps] /\ taken \in [Syncs -> Moments \cup {0}]
  /\ found \in [Syncs -> BOOLEAN]
  /\ syncSeen \in [Syncs -> SUBSET Row] /\ syncGone \in [Syncs -> SUBSET Row]
  /\ syncFaults \in 0 .. MaxSyncFaults

PortfolioInit ==
  /\ syncNow = 1 /\ account = 0 /\ holdings = {}
  /\ syncPc = [y \in Syncs |-> "idle"] /\ taken = [y \in Syncs |-> 0]
  /\ found = [y \in Syncs |-> FALSE]
  /\ syncSeen = [y \in Syncs |-> {}] /\ syncGone = [y \in Syncs |-> {}]
  /\ syncFaults = 0

Go(y, s) == syncPc' = [syncPc EXCEPT ![y] = s]

\* The end of a synchronisation: its transaction, if any, is rolled back.
Abandon(y) ==
  /\ Go(y, "idle")
  /\ taken' = [taken EXCEPT ![y] = 0] /\ found' = [found EXCEPT ![y] = FALSE]
  /\ syncSeen' = [syncSeen EXCEPT ![y] = {}] /\ syncGone' = [syncGone EXCEPT ![y] = {}]

\* The owner buys and sells.
Trade ==
  /\ syncNow + 1 \in Moments
  /\ syncNow' = syncNow + 1
  /\ UNCHANGED <<account, holdings, syncPc, taken, found, syncSeen, syncGone, syncFaults>>

\* The account is among those the broker lists.
FindAccount(y) ==
  /\ syncPc[y] = "idle"
  /\ Go(y, "fetch")
  /\ UNCHANGED <<syncNow, account, holdings, taken, found, syncSeen, syncGone,
                 syncFaults>>

FetchHoldings(y) ==
  /\ syncPc[y] = "fetch"
  /\ taken' = [taken EXCEPT ![y] = syncNow]
  /\ Go(y, "read")
  /\ UNCHANGED <<syncNow, account, holdings, found, syncSeen, syncGone, syncFaults>>

ReadAccount(y) ==
  /\ syncPc[y] = "read"
  /\ found' = [found EXCEPT ![y] = account # 0]
  /\ Go(y, "touch")
  /\ UNCHANGED <<syncNow, account, holdings, taken, syncSeen, syncGone, syncFaults>>

\* Mutant: the account's row is not written before the holdings.
AccountIgnored(y) == TRUE

\* The flush before the DELETE: an UPDATE of the row that was read, since its
\* time of synchronisation changes, or an INSERT that violates the unique key
\* when another request has inserted the row meanwhile. Both wait for a
\* transaction that has written the row.
AccountFree(y) == \A z \in Syncs \ {y} : syncPc[z] \notin Locked

TouchAccount(y) ==
  /\ syncPc[y] = "touch" /\ AccountFree(y)
  /\ IF found[y] \/ account = 0
     THEN Go(y, "delete") /\ UNCHANGED <<taken, found, syncSeen, syncGone>>
     ELSE Abandon(y)
  /\ UNCHANGED <<syncNow, account, holdings, syncFaults>>

BeginDelete(y) ==
  /\ syncPc[y] = "delete"
  /\ syncSeen' = [syncSeen EXCEPT ![y] = holdings]
  /\ Go(y, "deleting")
  /\ UNCHANGED <<syncNow, account, holdings, taken, found, syncGone, syncFaults>>

RowsFree(y) == \A z \in Syncs \ {y} : syncSeen[y] \cap syncGone[z] = {}

EndDelete(y) ==
  /\ syncPc[y] = "deleting" /\ RowsFree(y)
  /\ syncGone' = [syncGone EXCEPT ![y] = syncSeen[y] \cap holdings]
  /\ Go(y, "insert")
  /\ UNCHANGED <<syncNow, account, holdings, taken, found, syncSeen, syncFaults>>

\* The INSERTs and the commit; a symbol that still has a row violates the
\* unique key of the holdings.
New(y) == [symbol : Portfolios[taken[y]], taken : {taken[y]}]

InsertAndCommit(y) ==
  /\ syncPc[y] = "insert"
  /\ IF \A r \in holdings \ syncGone[y], n \in New(y) : r.symbol # n.symbol
     THEN /\ holdings' = (holdings \ syncGone[y]) \cup New(y)
          /\ account' = taken[y]
     ELSE UNCHANGED <<holdings, account>>
  /\ Abandon(y)
  /\ UNCHANGED <<syncNow, syncFaults>>

\* The broker refuses, or the connection to the database is lost.
Fail(y) ==
  /\ syncPc[y] # "idle" /\ syncFaults < MaxSyncFaults
  /\ syncFaults' = syncFaults + 1
  /\ Abandon(y)
  /\ UNCHANGED <<syncNow, account, holdings>>

PortfolioNext ==
  \/ Trade
  \/ \E y \in Syncs :
       FindAccount(y) \/ FetchHoldings(y) \/ ReadAccount(y) \/ TouchAccount(y)
       \/ BeginDelete(y) \/ EndDelete(y) \/ InsertAndCommit(y) \/ Fail(y)

PortfolioSpec == PortfolioInit /\ [][PortfolioNext]_portfolioVars

-----------------------------------------------------------------------------
\* Properties

\* Whatever the overlap of synchronisations, the stored holdings are exactly
\* one snapshot of the account, the one its row is dated with: a position that
\* was sold never survives beside the position it was exchanged for. It is the
\* account's row, written before the holdings are deleted, that serialises them
\* (repositories/sqlalchemy.py save_snapshot).
HoldingsAreOneSnapshot ==
  holdings = IF account = 0 THEN {}
             ELSE [symbol : Portfolios[account], taken : {account}]
=============================================================================
