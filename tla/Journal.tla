-------------------------------- MODULE Journal --------------------------------
(***************************************************************************)
(* The project journal of store.go: entries are appended with the time of  *)
(* what they tell, often a past one, while clients page through them from  *)
(* the newest to the oldest with a cursor on (occurred_at, id).            *)
(*                                                                         *)
(* One project; the rowid of an entry is its number, and the store is the  *)
(* one that is queried with the empty kind.                                *)
(***************************************************************************)
EXTENDS Naturals, Sequences, FiniteSets

CONSTANTS
  Readers,
  PageSize,       \* the limit, after the clamp
  MaxEntries,     \* bound: entries
  MaxOccurred     \* bound: times, from 1

VARIABLES
  journal,    \* project_journal_entry: occurred_at by id
  cursor,     \* the cursor each reader sends next; Top for the newest page
  pages,      \* the ids each reader was given, in the order of the answers
  begun       \* history: the ids there were when each reader began

journalVars == <<journal, cursor, pages, begun>>

\* The sentinel above any entry, the empty cursor, and the end of the walk.
Top == <<MaxOccurred + 1, MaxEntries + 1>>
NoMore == <<0, 0>>

EntryIds == 1..Len(journal)
EncodeCursor(id) == <<journal[id], id>>

\* Mutant: ties in time are passed over.
BelowByTime(id, c) == journal[id] < c[1]

Below(id, c) == journal[id] < c[1] \/ (journal[id] = c[1] /\ id < c[2])

NewerFirst(a, b) == journal[a] > journal[b] \/ (journal[a] = journal[b] /\ a > b)

AppendJournalEntry(occurred) ==
  /\ Len(journal) < MaxEntries
  /\ journal' = Append(journal, occurred)
  /\ UNCHANGED <<cursor, pages, begun>>

Given(page) == {page[i] : i \in DOMAIN page}

InOrder(page) == \A i \in 1..(Len(page) - 1) : NewerFirst(page[i], page[i + 1])

\* ORDER BY and LIMIT: PageSize of the rows, or all of them, in order; the rows
\* that are left out are older.  There is one such page.
Newest(rows) ==
  LET length == IF PageSize < Cardinality(rows) THEN PageSize ELSE Cardinality(rows)
  IN  {page \in [1..length -> rows] :
         /\ InOrder(page)
         /\ \A id \in Given(page), older \in rows \ Given(page) : NewerFirst(id, older)}

\* The rows below the cursor; one more than PageSize is asked for, to see whether
\* there is a further page.
ListJournal(r) ==
  LET rows == {id \in EntryIds : Below(id, cursor[r])}
  IN  /\ cursor[r] # NoMore
      /\ \E page \in Newest(rows) :
           /\ pages' = [pages EXCEPT ![r] = @ \o page]
           /\ cursor' = [cursor EXCEPT ![r] =
                           IF Given(page) = rows THEN NoMore ELSE EncodeCursor(page[Len(page)])]
      /\ begun' = [begun EXCEPT ![r] = IF cursor[r] = Top THEN EntryIds ELSE @]
      /\ UNCHANGED journal

\* A reader that has seen the end starts anew.
StartsOver(r) ==
  /\ cursor[r] = NoMore
  /\ cursor' = [cursor EXCEPT ![r] = Top]
  /\ pages' = [pages EXCEPT ![r] = << >>]
  /\ begun' = [begun EXCEPT ![r] = {}]
  /\ UNCHANGED journal

JournalInit ==
  /\ journal = << >>
  /\ cursor = [r \in Readers |-> Top]
  /\ pages = [r \in Readers |-> << >>]
  /\ begun = [r \in Readers |-> {}]

JournalNext ==
  \/ \E occurred \in 1..MaxOccurred : AppendJournalEntry(occurred)
  \/ \E r \in Readers : ListJournal(r) \/ StartsOver(r)

JournalSpec == JournalInit /\ [][JournalNext]_journalVars

-----------------------------------------------------------------------------
JournalTypeOK ==
  /\ journal \in Seq(1..MaxOccurred) /\ Len(journal) <= MaxEntries
  /\ cursor \in [Readers -> (0..MaxOccurred + 1) \X (0..MaxEntries + 1)]
  /\ pages \in [Readers -> Seq(EntryIds)] /\ begun \in [Readers -> SUBSET EntryIds]

\* Pages are in order and give nothing twice, whatever is appended meanwhile,
\* and a walk to the end has given every entry there was when it began.
PagesAreComplete ==
  \A r \in Readers :
    /\ InOrder(pages[r])
    /\ cursor[r] = NoMore => begun[r] \subseteq Given(pages[r])

\* The inductive invariant: the cursor is that of the last entry given, and what a
\* reader has still to see is below it.
WalkIsSound(r) ==
  LET read == pages[r] IN
  /\ cursor[r] = Top => read = << >> /\ begun[r] = {}
  /\ cursor[r] \notin {Top, NoMore} => read # << >> /\ cursor[r] = EncodeCursor(read[Len(read)])
  /\ \A id \in begun[r] \ Given(read) : Below(id, cursor[r])

JournalInv ==
  /\ JournalTypeOK
  /\ PagesAreComplete
  /\ \A r \in Readers : WalkIsSound(r)
=============================================================================
