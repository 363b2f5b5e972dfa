---------------------------- MODULE ReceiptStore ----------------------------
(***************************************************************************)
(* What the evidence store promises to those who append to it and to those *)
(* who query it, without spools, offsets, fences and crashes: a receipt     *)
(* that was acknowledged is found until it is pruned, and nothing is found  *)
(* that could not be replayed.                                             *)
(***************************************************************************)
EXTENDS Naturals

CONSTANTS
    Receipt,    \* each has an id, higher than those of the receipts before it
    Prunable    \* those that may be taken away again, unless a link is of the same

VARIABLES
    written,    \* the receipts on disk: replay finds these
    newest,     \* the id that was given out last
    acked,      \* the ids whose append returned, unless pruned since
    shown,      \* the receipts that a query answers with
    refused,    \* the ids with an error of the database on record
    settled     \* nothing is left to replay

receiptStoreVars == <<written, newest, acked, shown, refused, settled>>

IdsOf(S) == {r.id : r \in S}

-----------------------------------------------------------------------------
\* A replay adds to what queries find, and only what is on disk.
Replay ==
    /\ shown \subseteq shown' /\ shown' \subseteq written'
    /\ refused \subseteq refused'

\* The append returns: by then a query finds the receipt.
Accept(r) ==
    /\ r.id = newest + 1
    /\ newest' = r.id
    /\ written' = written \cup {r}
    /\ acked' = acked \cup {r.id}
    /\ r \in shown' /\ settled'
    /\ Replay

\* The append is cut off: its receipt may be on disk or not, and a query may
\* find it or not.
CutOff(r) ==
    /\ r.id = newest + 1
    /\ newest' = r.id
    /\ written' \in {written, written \cup {r}}
    /\ Replay
    /\ UNCHANGED acked

CatchUp == Replay /\ UNCHANGED <<written, newest, acked>>

\* Takes receipts away that no link refers to, and the promise made for them.
Withdraw(S) ==
    /\ \A r \in S, l \in shown : l.kind = "link" => l.of # r.of
    /\ shown' = shown \ S
    /\ acked' = acked \ IdsOf(S)
    /\ UNCHANGED <<written, newest, refused, settled>>

\* Queries find nothing until the next replay.
Forget ==
    /\ shown' = {} /\ refused' = {}
    /\ UNCHANGED <<written, newest, acked>>

\* Takes from disk what no query finds and what nobody was promised.
Compact(S) ==
    /\ S \cap shown = {} /\ IdsOf(S) \cap acked = {}
    /\ written' = written \ S
    /\ UNCHANGED <<newest, acked, shown, refused>>

\* No acknowledged receipt disappears in silence.
Answered == settled => acked \subseteq IdsOf(shown) \cup refused

-----------------------------------------------------------------------------
ReceiptStoreInit ==
    /\ written = {} /\ newest = 0 /\ acked = {}
    /\ shown = {} /\ refused = {} /\ settled = TRUE

ReceiptStoreNext ==
    /\ \/ CatchUp
       \/ \E r \in Receipt : Accept(r) \/ CutOff(r)
       \/ \E S \in SUBSET (shown \cap Prunable) : Withdraw(S)
       \/ Forget
       \/ \E S \in SUBSET (written \cap Prunable) : Compact(S)
    /\ Answered'

ReceiptStoreSpec == ReceiptStoreInit /\ [][ReceiptStoreNext]_receiptStoreVars
=============================================================================
