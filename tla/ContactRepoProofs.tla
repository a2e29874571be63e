------------------------- MODULE ContactRepoProofs -------------------------
(***************************************************************************)
(* For every set of keys, contacts and input files: a repository that only *)
(* saw faithful saves never holds two contacts with the same e-mail or     *)
(* phone, its index file never lies, and the maps in memory never drift    *)
(* from the vector.                                                        *)
(*                                                                         *)
(* UniqueKeys is not inductive: that no key is stored twice rests on the   *)
(* maps the duplicate checks consult, the maps rest on the index file they *)
(* were read from, and the checks of an edit rest on no two contacts       *)
(* having the same id.  IInv collects the four.  It has a part about the   *)
(* files, kept by Save, and a part about the running process.              *)
(*                                                                         *)
(* That a merge keeps the stored contacts rests on one fact more, about a  *)
(* merge under way: the book in memory has grown from the data file in the *)
(* way its strategy allows (Kept).                                         *)
(***************************************************************************)
EXTENDS ContactRepo, ContactBookProofs

FilesTyped ==
    /\ data \in Seq(Contact)
    /\ index.of \in Seq(Contact) \cup {NoFile}
    /\ IsMap(index.email, Emails) /\ IsMap(index.phone, Phones)
    /\ clean \in BOOLEAN

DataDistinct ==
    clean => /\ Distinct(EmailsOf(data)) /\ Distinct(PhonesOf(data))
             /\ Distinct(IdsOf(data)) /\ Named(IdsOf(data))

FileInv == FilesTyped /\ DataDistinct /\ IndexTruthful

JobTyped ==
    /\ IsBook(book)
    /\ job \in [cmd : {"none", "open", "import", "merge"}, dry : BOOLEAN,
               strat : Strategies, todo : Seq(Contact)]

\* An import may bring an id that is already there; every other command starts
\* from distinct ids and keeps them.
BookIds ==
    clean => /\ Named(IdsOf(book.contacts))
             /\ job.cmd # "import" => Distinct(IdsOf(book.contacts))

JobInv == JobTyped /\ BookExact /\ BookIds

IInv == FileInv /\ JobInv

-----------------------------------------------------------------------------
(* A process that exits leaves the empty book behind.                        *)
LEMMA ExitKeepsJob ==
    ASSUME Exit
    PROVE  JobInv'
  <1>1. book' = NoBook /\ job' = NoJob /\ NoBook.contacts = << >>
    BY DEF Exit, NoBook, Book
  <1>2. NoJob \in [cmd : {"none", "open", "import", "merge"}, dry : BOOLEAN,
                   strat : Strategies, todo : Seq(Contact)]
    BY EmptySeq DEF NoJob, Job, Strategies
  <1>3. QED
    BY <1>1, <1>2, EmptyBookFacts DEF JobInv, JobTyped, BookExact, BookIds

(* Saving a book whose maps are exact keeps the files right, whether it      *)
(* writes both files, only the data, or nothing.                             *)
LEMMA SaveKeepsFiles ==
    ASSUME FileInv, NEW b, IsBook(b), NEW faithful \in BOOLEAN,
           clean /\ faithful => ExactBook(b), Save(b, faithful)
    PROVE  FileInv' /\ (clean' => clean)
  <1>1. CASE UNCHANGED << data, index, clean >>
    BY <1>1 DEF FileInv, FilesTyped, DataDistinct, IndexTruthful
  <1>2. CASE /\ data' = b.contacts
             /\ index' \in {index, IndexOf(b)}
             /\ clean' = (/\ clean /\ faithful
                          /\ Distinct(IdsOf(b.contacts)) /\ Named(IdsOf(b.contacts)))
    <2>1. b.contacts \in Seq(Contact) /\ IsMap(b.email, Emails) /\ IsMap(b.phone, Phones)
      BY DEF IsBook
    <2>2. FilesTyped'
      BY <1>2, <2>1 DEF FileInv, FilesTyped, IndexOf
    <2>3. DataDistinct'
      BY <1>2, ExactBookDistinct DEF DataDistinct
    <2>4. IndexTruthful'
      <3>1. CASE index' = index
        BY <1>2, <3>1 DEF FileInv, IndexTruthful
      <3>2. CASE index' = IndexOf(b)
        BY <1>2, <3>2 DEF IndexTruthful, IndexOf, ExactBook, Book
      <3>3. QED
        BY <1>2, <3>1, <3>2
    <2>5. QED
      BY <1>2, <2>2, <2>3, <2>4 DEF FileInv
  <1>3. QED
    BY <1>1, <1>2 DEF Save

(* The same for the save that --dry-run skips.                               *)
LEMMA PersistKeepsFiles ==
    ASSUME FileInv, NEW b, IsBook(b), NEW dry, clean => ExactBook(b), Persist(b, dry)
    PROVE  FileInv' /\ (clean' => clean)
  <1>1. CASE dry
    BY <1>1 DEF Persist, FileInv, FilesTyped, DataDistinct, IndexTruthful
  <1>2. CASE ~dry
    BY <1>2, SaveKeepsFiles DEF Persist
  <1>3. QED
    BY <1>1, <1>2

(* Files that are not written stay right.                                    *)
LEMMA UnchangedKeepsFiles ==
    ASSUME FileInv, UNCHANGED << data, index, clean >>
    PROVE  FileInv' /\ (clean' => clean)
  BY DEF FileInv, FilesTyped, DataDistinct, IndexTruthful

(* A contact about to be added is a contact, and has the new id.             *)
LEMMA NewContact ==
    ASSUME NEW a \in Contact, NEW id \in Ids, NEW t \in Times
    PROVE  New(a, id, t) \in Contact /\ New(a, id, t).id = id
  BY DEF New, Contact

-----------------------------------------------------------------------------
(* One lemma per action.                                                     *)

(* Before the first command: no data, no index, no process.                  *)
LEMMA InitInv == Init => IInv
  <1> SUFFICES ASSUME Init PROVE IInv
    OBVIOUS
  <1>1. /\ data = << >> /\ book = NoBook /\ job = NoJob /\ clean = TRUE
        /\ index.of = NoFile /\ index.email = EmptyMap /\ index.phone = EmptyMap
    BY DEF Init
  <1>2. << >> \in Seq(Contact)
    BY EmptySeq
  <1>3. /\ NoBook.contacts = << >> /\ NoBook.email = EmptyMap /\ NoBook.phone = EmptyMap
    BY DEF NoBook, Book
  <1>4. FilesTyped
    BY <1>1, <1>2, <1>3, EmptyBookFacts DEF FilesTyped, IsBook
  <1>5. DataDistinct
    BY <1>1, <1>3, EmptyBookFacts, ExactBookDistinct DEF DataDistinct
  <1>6. IndexTruthful
    BY <1>1 DEF IndexTruthful
  <1>7. NoJob \in [cmd : {"none", "open", "import", "merge"}, dry : BOOLEAN,
                   strat : Strategies, todo : Seq(Contact)]
    BY EmptySeq DEF NoJob, Job, Strategies
  <1>8. JobInv
    BY <1>1, <1>3, <1>7, EmptyBookFacts DEF JobInv, JobTyped, BookExact, BookIds
  <1>9. QED
    BY <1>4, <1>5, <1>6, <1>8 DEF IInv, FileInv

(* A load gives exact maps: those of an index file that names the data, or   *)
(* maps computed from data without two equal keys.                           *)
LEMMA LoadStep ==
    ASSUME IInv, Load
    PROVE  IInv'
  <1>1. FileInv /\ FilesTyped /\ DataDistinct /\ IndexTruthful
    BY DEF IInv, FileInv
  <1>2. job' = Open /\ data' = data /\ clean' = clean /\ Open.cmd = "open"
    BY DEF Load, Open, Job
  <1>3. Open \in [cmd : {"none", "open", "import", "merge"}, dry : BOOLEAN,
                  strat : Strategies, todo : Seq(Contact)]
    BY EmptySeq DEF Open, Job, Strategies
  <1>4. CASE data = << >> /\ book' = NoBook /\ UNCHANGED index
    <2>1. FileInv'
      BY <1>1, <1>2, <1>4, UnchangedKeepsFiles
    <2>2. NoBook.contacts = << >>
      BY DEF NoBook, Book
    <2>3. JobInv'
      BY <1>2, <1>3, <1>4, <2>2, EmptyBookFacts DEF JobInv, JobTyped, BookExact, BookIds
    <2>4. QED
      BY <2>1, <2>3 DEF IInv
  <1>5. CASE /\ data # << >> /\ index.of = data
             /\ book' = Book(data, index.email, index.phone) /\ UNCHANGED index
    <2>1. FileInv'
      BY <1>1, <1>2, <1>5, UnchangedKeepsFiles
    <2>2. index.of # NoFile
      BY <1>1, <1>5, NoFileAssumption DEF FilesTyped
    <2>3. clean => ExactBook(book')
      BY <1>1, <1>5, <2>2 DEF IndexTruthful
    <2>4. IsBook(book')
      BY <1>1, <1>5 DEF FilesTyped, IsBook, Book
    <2>5. clean => Distinct(IdsOf(book'.contacts)) /\ Named(IdsOf(book'.contacts))
      BY <1>1, <1>5 DEF DataDistinct, Book
    <2>6. JobInv'
      BY <1>2, <1>3, <2>3, <2>4, <2>5 DEF JobInv, JobTyped, BookExact, BookIds
    <2>7. QED
      BY <2>1, <2>6 DEF IInv
  <1>6. CASE /\ data # << >> /\ index.of # data
             /\ book' = Rebuilt(data)
             /\ index' \in {index, IndexOf(Rebuilt(data))}
    <2>1. IsBook(Rebuilt(data)) /\ Rebuilt(data).contacts = data
      BY <1>1, RebuiltType DEF FilesTyped, Rebuilt, Book
    <2>2. clean => ExactBook(Rebuilt(data))
      BY <1>1, RebuiltExact DEF FilesTyped, DataDistinct
    <2>3. clean => Distinct(IdsOf(data)) /\ Named(IdsOf(data))
      BY <1>1 DEF DataDistinct
    <2>4. JobInv'
      BY <1>2, <1>3, <1>6, <2>1, <2>2, <2>3 DEF JobInv, JobTyped, BookExact, BookIds
    <2>5. CASE index' = index
      BY <1>1, <1>2, <2>4, <2>5, UnchangedKeepsFiles DEF IInv
    <2>6. CASE index' = IndexOf(Rebuilt(data))
      <3>1. FilesTyped'
        BY <1>1, <1>2, <2>1, <2>6 DEF FilesTyped, IsBook, IndexOf
      <3>2. DataDistinct'
        BY <1>1, <1>2 DEF DataDistinct
      <3>3. IndexTruthful'
        BY <1>2, <2>2, <2>6 DEF IndexTruthful, IndexOf, ExactBook, Book
      <3>4. QED
        BY <2>4, <3>1, <3>2, <3>3 DEF IInv, FileInv
    <2>7. QED
      BY <1>6, <2>5, <2>6
  <1>7. QED
    BY <1>4, <1>5, <1>6 DEF Load

(* A step that exits needs only its effect on the files.                     *)
LEMMA ExitStep ==
    ASSUME FileInv', Exit
    PROVE  IInv'
  BY ExitKeepsJob DEF IInv

(* A process that ends leaves the files alone.                               *)
LEMMA LeaveStep ==
    ASSUME IInv, Leave
    PROVE  IInv'
  BY UnchangedKeepsFiles, ExitStep DEF Leave, IInv

(* A contact is saved only when neither of its keys is in the maps.          *)
LEMMA AddStep ==
    ASSUME IInv, Add
    PROVE  IInv'
  <1>1. /\ FileInv /\ IsBook(book)
        /\ clean => ExactBook(book) /\ Named(IdsOf(book.contacts))
    BY DEF IInv, JobInv, JobTyped, BookExact, BookIds
  <1>2. Exit
    BY DEF Add
  <1>3. PICK a \in Additions, id \in Ids, t \in Times, dry \in BOOLEAN, oob \in Garbage(book) :
          LET c == New(a, id, t)
          IN  IF CanAdd(book, c, oob) THEN Persist(PushBack(book, c), dry)
                                      ELSE UNCHANGED << data, index, clean >>
    BY DEF Add
  <1> DEFINE c == New(a, id, t)
  <1>4. IF CanAdd(book, c, oob) THEN Persist(PushBack(book, c), dry)
                                ELSE UNCHANGED << data, index, clean >>
    BY <1>3
  <1>5. c \in Contact
    BY AdditionsAssumption, NewContact
  <1> HIDE DEF c
  <1>6. CASE CanAdd(book, c, oob)
    <2>1. IsBook(PushBack(book, c)) /\ (clean => ExactBook(PushBack(book, c)))
      BY <1>1, <1>5, <1>6, AddKeepsBook DEF CanAdd
    <2>2. FileInv'
      BY <1>1, <1>4, <1>6, <2>1, PersistKeepsFiles
    <2>3. QED
      BY <1>2, <2>2, ExitStep
  <1>7. CASE ~CanAdd(book, c, oob)
    BY <1>1, <1>2, <1>4, <1>7, UnchangedKeepsFiles, ExitStep
  <1>8. QED
    BY <1>6, <1>7

(* An edit that is saved kept the maps exact, because no other contact has   *)
(* the id its duplicate checks skip.                                         *)
LEMMA EditStep ==
    ASSUME IInv, Edit
    PROVE  IInv'
  <1>1. FileInv /\ IsBook(book) /\ (clean => ExactBook(book))
    BY DEF IInv, JobInv, JobTyped, BookExact
  <1>2. Exit /\ job.cmd = "open"
    BY DEF Edit, Open, Job
  <1>3. clean => Distinct(IdsOf(book.contacts))
    BY <1>2 DEF IInv, JobInv, BookIds
  <1>4. PICK id \in Ids, o \in Edits, dry \in BOOLEAN, oob \in Garbage(book) :
          IF Edited(book, id, o, oob).ok THEN Persist(Edited(book, id, o, oob).book, dry)
                                         ELSE UNCHANGED << data, index, clean >>
    BY DEF Edit
  <1> DEFINE r == Edited(book, id, o, oob)
  <1>5. IsBook(r.book) /\ (ExactBook(book) /\ Distinct(IdsOf(book.contacts)) => ExactBook(r.book))
    BY <1>1, EditsAssumption, EditedFacts
  <1> HIDE DEF r
  <1>6. CASE r.ok
    <2>1. Persist(r.book, dry)
      BY <1>4, <1>6 DEF r
    <2>2. FileInv'
      BY <1>1, <1>3, <1>5, <2>1, PersistKeepsFiles
    <2>3. QED
      BY <1>2, <2>2, ExitStep
  <1>7. CASE ~r.ok
    <2>1. UNCHANGED << data, index, clean >>
      BY <1>4, <1>7 DEF r
    <2>2. QED
      BY <1>1, <1>2, <2>1, UnchangedKeepsFiles, ExitStep
  <1>8. QED
    BY <1>6, <1>7

(* A delete re-indexes every contact it moves.                               *)
LEMMA DeleteStep ==
    ASSUME IInv, Delete
    PROVE  IInv'
  <1>1. FileInv /\ IsBook(book) /\ (clean => ExactBook(book))
    BY DEF IInv, JobInv, JobTyped, BookExact
  <1>2. Exit
    BY DEF Delete
  <1>3. PICK id \in Ids, dry \in BOOLEAN :
          IF Positions(book, id) # {}
            THEN Persist(Deleted(book, FirstPosition(book, id)), dry)
            ELSE UNCHANGED << data, index, clean >>
    BY DEF Delete
  <1>4. CASE Positions(book, id) # {}
    <2>1. FirstPosition(book, id) \in DOMAIN book.contacts
      BY <1>1, <1>4, FirstPositionFact
    <2>2. /\ IsBook(Deleted(book, FirstPosition(book, id)))
          /\ ExactBook(book) => ExactBook(Deleted(book, FirstPosition(book, id)))
      BY <1>1, <2>1, DeletedFacts
    <2>3. FileInv'
      BY <1>1, <1>3, <1>4, <2>2, PersistKeepsFiles
    <2>4. QED
      BY <1>2, <2>3, ExitStep
  <1>5. CASE Positions(book, id) = {}
    BY <1>1, <1>2, <1>3, <1>5, UnchangedKeepsFiles, ExitStep
  <1>6. QED
    BY <1>4, <1>5

-----------------------------------------------------------------------------
(* The commands that take several steps.                                     *)

(* A job that keeps its type while the book stays as it was.                 *)
LEMMA StartJob ==
    ASSUME IInv, job = Open, UNCHANGED << data, index, book, clean >>,
           job' \in [cmd : {"none", "open", "import", "merge"}, dry : BOOLEAN,
                     strat : Strategies, todo : Seq(Contact)]
    PROVE  IInv'
  <1>1. FileInv /\ JobInv /\ job.cmd = "open"
    BY DEF IInv, Open, Job
  <1>2. FileInv'
    BY <1>1, UnchangedKeepsFiles
  <1>3. JobTyped'
    BY <1>1 DEF JobInv, JobTyped
  <1>4. BookExact' /\ BookIds'
    BY <1>1 DEF JobInv, BookExact, BookIds
  <1>5. QED
    BY <1>2, <1>3, <1>4 DEF IInv, JobInv

(* Choosing the input file of an import.                                     *)
LEMMA BeginImportStep ==
    ASSUME IInv, BeginImport
    PROVE  IInv'
  <1>1. PICK f \in Files, dry \in BOOLEAN : job' = Job("import", dry, "skip", f)
    BY DEF BeginImport
  <1>2. f \in Seq(Contact)
    BY FilesAssumption
  <1>3. job' \in [cmd : {"none", "open", "import", "merge"}, dry : BOOLEAN,
                  strat : Strategies, todo : Seq(Contact)]
    BY <1>1, <1>2 DEF Job, Strategies
  <1>4. QED
    BY <1>3, StartJob DEF BeginImport

(* Choosing the input file and the strategy of a merge.                      *)
LEMMA BeginMergeStep ==
    ASSUME IInv, BeginMerge
    PROVE  IInv'
  <1>1. PICK f \in Files, dry \in BOOLEAN, strat \in Strategies :
          job' = Job("merge", dry, strat, f)
    BY DEF BeginMerge
  <1>2. f \in Seq(Contact)
    BY FilesAssumption
  <1>3. job' \in [cmd : {"none", "open", "import", "merge"}, dry : BOOLEAN,
                  strat : Strategies, todo : Seq(Contact)]
    BY <1>1, <1>2 DEF Job
  <1>4. QED
    BY <1>3, StartJob DEF BeginMerge

(* Taking the next row of an input file.                                     *)
LEMMA NextRow ==
    ASSUME JobTyped, job.todo # << >>, job' = [job EXCEPT !.todo = Tail(@)]
    PROVE  /\ Head(job.todo) \in Contact
           /\ job'.cmd = job.cmd
           /\ job' \in [cmd : {"none", "open", "import", "merge"}, dry : BOOLEAN,
                        strat : Strategies, todo : Seq(Contact)]
  <1>1. job.todo \in Seq(Contact)
    BY DEF JobTyped
  <1>2. Head(job.todo) \in Contact /\ Tail(job.todo) \in Seq(Contact)
    BY <1>1, HeadTailProperties
  <1>3. QED
    BY <1>2 DEF JobTyped

(* A row of an import joins the book only when neither key is in the maps.   *)
LEMMA ImportRowStep ==
    ASSUME IInv, ImportRow
    PROVE  IInv'
  <1>1. /\ FileInv /\ JobTyped /\ IsBook(book)
        /\ clean => ExactBook(book) /\ Named(IdsOf(book.contacts))
    BY DEF IInv, JobInv, JobTyped, BookExact, BookIds
  <1> DEFINE c == Head(job.todo)
  <1>2. /\ job.cmd = "import" /\ job.todo # << >> /\ job' = [job EXCEPT !.todo = Tail(@)]
        /\ clean' = (clean /\ c.id # Blank) /\ UNCHANGED << data, index >>
    BY DEF ImportRow
  <1>3. /\ c \in Contact /\ job'.cmd = "import"
        /\ job' \in [cmd : {"none", "open", "import", "merge"}, dry : BOOLEAN,
                     strat : Strategies, todo : Seq(Contact)]
    BY <1>1, <1>2, NextRow
  <1>4. PICK oob \in Garbage(book) :
          book' = IF EmailExists(book, c.email, Blank, oob)
                       \/ PhoneExists(book, c.phone, Blank, oob)
                  THEN book ELSE PushBack(book, c)
    BY DEF ImportRow
  <1> HIDE DEF c
  <1>5. FileInv'
    BY <1>1, <1>2 DEF FileInv, FilesTyped, DataDistinct, IndexTruthful
  <1>6. CASE book' = book
    BY <1>1, <1>2, <1>3, <1>5, <1>6 DEF IInv, JobInv, JobTyped, BookExact, BookIds
  <1>7. CASE book' # book
    <2>1. /\ book' = PushBack(book, c)
          /\ ~EmailExists(book, c.email, Blank, oob) /\ ~PhoneExists(book, c.phone, Blank, oob)
      BY <1>4, <1>7
    <2>2. IsBook(book')
      BY <1>1, <1>3, <2>1, PushBackType
    <2>3. ASSUME ExactBook(book), Named(IdsOf(book.contacts))
          PROVE  ExactBook(PushBack(book, c))
      BY <1>1, <1>3, <2>1, <2>3, AddKeepsBook
    <2>4. clean' => ExactBook(book')
      BY <1>1, <1>2, <2>1, <2>3
    <2>5. clean' => Named(IdsOf(book'.contacts))
      BY <1>1, <1>2, <1>3, <2>1, PushBackIds
    <2>6. QED
      BY <1>3, <1>5, <2>2, <2>4, <2>5 DEF IInv, JobInv, JobTyped, BookExact, BookIds
  <1>8. QED
    BY <1>6, <1>7

(* The one save of an import.                                                *)
LEMMA EndImportStep ==
    ASSUME IInv, EndImport
    PROVE  IInv'
  <1>1. FileInv /\ IsBook(book) /\ (clean => ExactBook(book))
    BY DEF IInv, JobInv, JobTyped, BookExact
  <1>2. Persist(book, job.dry) /\ Exit
    BY DEF EndImport
  <1>3. FileInv'
    BY <1>1, <1>2, PersistKeepsFiles
  <1>4. QED
    BY <1>2, <1>3, ExitStep

(* The last save of a merge, which --dry-run does not prevent.               *)
LEMMA EndMergeStep ==
    ASSUME IInv, EndMerge
    PROVE  IInv'
  <1>1. FileInv /\ IsBook(book) /\ (clean => ExactBook(book))
    BY DEF IInv, JobInv, JobTyped, BookExact
  <1>2. Save(book, TRUE) /\ Exit
    BY DEF EndMerge
  <1>3. FileInv'
    BY <1>1, <1>2, SaveKeepsFiles
  <1>4. QED
    BY <1>2, <1>3, ExitStep

(* A row of a merge that matches nothing is added with a fresh id.           *)
LEMMA MergeNewStep ==
    ASSUME IInv, MergeNew
    PROVE  IInv'
  <1>1. FileInv /\ JobTyped /\ IsBook(book) /\ (clean => ExactBook(book))
    BY DEF IInv, JobInv, JobTyped, BookExact
  <1>2. job.cmd = "merge" /\ job.todo # << >> /\ job' = [job EXCEPT !.todo = Tail(@)]
    BY DEF MergeNew
  <1>3. clean => Distinct(IdsOf(book.contacts)) /\ Named(IdsOf(book.contacts))
    BY <1>2 DEF IInv, JobInv, BookIds
  <1> DEFINE row == Head(job.todo)
  <1>4. /\ row \in Contact
        /\ job' \in [cmd : {"none", "open", "import", "merge"}, dry : BOOLEAN,
                     strat : Strategies, todo : Seq(Contact)]
    BY <1>1, <1>2, NextRow
  <1>5. PICK id \in Ids, t \in Times, oob \in Garbage(book) :
          /\ FreshId(book, id)
          /\ LET c == New(row, id, t)
             IN  IF CanAdd(book, c, oob)
                   THEN book' = PushBack(book, c) /\ Persist(book', job.dry)
                   ELSE UNCHANGED << data, index, book, clean >>
    BY DEF MergeNew
  <1> DEFINE c == New(row, id, t)
  <1>6. c \in Contact /\ FreshId(book, c.id) /\ c.id # Blank
    BY <1>4, <1>5, NewContact DEF FreshId
  <1>7. IF CanAdd(book, c, oob)
          THEN book' = PushBack(book, c) /\ Persist(book', job.dry)
          ELSE UNCHANGED << data, index, book, clean >>
    BY <1>5
  <1> HIDE DEF row, c
  <1>8. CASE CanAdd(book, c, oob)
    <2>1. book' = PushBack(book, c) /\ Persist(book', job.dry)
      BY <1>7, <1>8
    <2>2. IsBook(PushBack(book, c)) /\ (clean => ExactBook(PushBack(book, c)))
      BY <1>1, <1>3, <1>6, <1>8, AddKeepsBook DEF CanAdd
    <2>3. Distinct(IdsOf(book.contacts)) => Distinct(IdsOf(PushBack(book, c).contacts))
      BY <1>1, <1>6, PushBackIds DEF FreshId
    <2>4. clean => Named(IdsOf(PushBack(book, c).contacts))
      BY <1>1, <1>3, <1>6, PushBackIds
    <2>5. FileInv' /\ (clean' => clean)
      BY <1>1, <2>1, <2>2, PersistKeepsFiles
    <2>6. JobInv'
      BY <1>1, <1>3, <1>4, <2>1, <2>2, <2>3, <2>4, <2>5 DEF JobInv, JobTyped, BookExact, BookIds
    <2>7. QED
      BY <2>5, <2>6 DEF IInv
  <1>9. CASE ~CanAdd(book, c, oob)
    <2>1. UNCHANGED << data, index, book, clean >>
      BY <1>7, <1>9
    <2>2. FileInv'
      BY <1>1, <2>1, UnchangedKeepsFiles
    <2>3. JobInv'
      BY <1>1, <1>3, <1>4, <2>1 DEF JobInv, JobTyped, BookExact, BookIds
    <2>4. QED
      BY <2>2, <2>3 DEF IInv
  <1>10. QED
    BY <1>8, <1>9

(* A row of a merge that matches a contact edits it, and leaves the book     *)
(* changed in memory even when the edit is refused half-way.                 *)
LEMMA MergeMatchStep ==
    ASSUME IInv, MergeMatch
    PROVE  IInv'
  <1>1. FileInv /\ JobTyped /\ IsBook(book) /\ (clean => ExactBook(book))
    BY DEF IInv, JobInv, JobTyped, BookExact
  <1>2. job.cmd = "merge" /\ job.todo # << >> /\ job' = [job EXCEPT !.todo = Tail(@)]
    BY DEF MergeMatch
  <1>3. clean => Distinct(IdsOf(book.contacts)) /\ Named(IdsOf(book.contacts))
    BY <1>2 DEF IInv, JobInv, BookIds
  <1> DEFINE row == Head(job.todo)
             i   == Match(book, row)
             o   == MergeOptions(job.strat, row)
  <1>4. /\ row \in Contact
        /\ job' \in [cmd : {"none", "open", "import", "merge"}, dry : BOOLEAN,
                     strat : Strategies, todo : Seq(Contact)]
    BY <1>1, <1>2, NextRow
  <1>5. o \in EditOptions
    BY <1>4 DEF MergeOptions, EditOptions, Contact
  <1>6. \/ \E oob \in Garbage(book) :
             LET r == Edited(book, book.contacts[i].id, o, oob)
             IN  /\ book' = r.book
                 /\ IF r.ok THEN Persist(book', job.dry) ELSE UNCHANGED << data, index, clean >>
        \/ UNCHANGED << data, index, book, clean >>
    BY DEF MergeMatch
  <1> HIDE DEF row, i, o
  <1>7. ASSUME NEW oob \in Garbage(book), NEW r, r = Edited(book, book.contacts[i].id, o, oob),
               book' = r.book,
               IF r.ok THEN Persist(book', job.dry) ELSE UNCHANGED << data, index, clean >>
        PROVE  IInv'
    <2>1. /\ IsBook(r.book)
          /\ IdsOf(r.book.contacts) = IdsOf(book.contacts)
          /\ ExactBook(book) /\ Distinct(IdsOf(book.contacts)) => ExactBook(r.book)
      BY <1>1, <1>5, <1>7, EditedFacts
    <2>2. clean => ExactBook(r.book)
      BY <1>1, <1>3, <2>1
    <2>3. FileInv' /\ (clean' => clean)
      <3>1. CASE r.ok
        BY <1>1, <1>7, <2>1, <2>2, <3>1, PersistKeepsFiles
      <3>2. CASE ~r.ok
        BY <1>1, <1>7, <3>2, UnchangedKeepsFiles
      <3>3. QED
        BY <3>1, <3>2
    <2>4. JobInv'
      BY <1>3, <1>4, <1>7, <2>1, <2>2, <2>3 DEF JobInv, JobTyped, BookExact, BookIds
    <2>5. QED
      BY <2>3, <2>4 DEF IInv
  <1>8. ASSUME UNCHANGED << data, index, book, clean >>
        PROVE  IInv'
    <2>1. FileInv'
      BY <1>1, <1>8, UnchangedKeepsFiles
    <2>2. JobInv'
      BY <1>1, <1>3, <1>4, <1>8 DEF JobInv, JobTyped, BookExact, BookIds
    <2>3. QED
      BY <2>1, <2>2 DEF IInv
  <1>9. QED
    BY <1>6, <1>7, <1>8

-----------------------------------------------------------------------------
(* The commands that save a book whose maps do not describe it.  Once such a *)
(* save has happened `clean` is FALSE, and only the types are at stake.      *)

(* Contacts picked out of a sequence form a sequence.                        *)
LEMMA AtType ==
    ASSUME NEW s \in Seq(Contact), NEW S \in SUBSET (DOMAIN s), NEW max \in Nat,
           NEW p \in Ascents(S, max)
    PROVE  At(s, p) \in Seq(Contact)
  <1>1. PICK n \in Nat : p \in [1 .. n -> S]
    BY DEF Ascents
  <1>2. \A i \in DOMAIN s : s[i] \in Contact
    BY KeysOfContacts
  <1>3. \A i \in 1 .. n : s[p[i]] \in Contact
    BY <1>1, <1>2
  <1>4. [i \in 1 .. n |-> s[p[i]]] \in Seq(Contact)
    BY <1>3, IsASeq
  <1>5. QED
    BY <1>1, <1>4 DEF At

(* A book that keeps its maps but not its contacts is still a book.          *)
LEMMA OtherContacts ==
    ASSUME FileInv, IsBook(book), NEW cs \in Seq(Contact),
           NEW fe, IsMap(fe, Emails), NEW fp, IsMap(fp, Phones),
           Save(Book(cs, fe, fp), FALSE)
    PROVE  FileInv'
  <1>1. IsBook(Book(cs, fe, fp))
    BY DEF IsBook, Book
  <1> DEFINE b == Book(cs, fe, fp)
  <1> HIDE DEF b
  <1>2. FileInv'
    BY <1>1, SaveKeepsFiles DEF b
  <1>3. QED
    BY <1>2

(* The parallel import saves the rows it accepted beside the maps of before. *)
LEMMA ImportParallelStep ==
    ASSUME IInv, ImportParallel
    PROVE  IInv'
  <1>1. FileInv /\ IsBook(book)
    BY DEF IInv, JobInv, JobTyped
  <1>2. Exit
    BY DEF ImportParallel
  <1>3. PICK f \in Files, dry \in BOOLEAN :
          \E p \in Acceptances(book.contacts, f), ids \in NewIds(book, f) :
            LET rows == [k \in DOMAIN f |-> WithId(f[k], ids, k)]
                cs   == book.contacts \o At(rows, p)
            IN  IF dry THEN UNCHANGED << data, index, clean >>
                       ELSE Save(Book(cs, book.email, book.phone), FALSE)
    BY DEF ImportParallel
  <1>4. PICK p \in Acceptances(book.contacts, f), ids \in NewIds(book, f) :
          LET rows == [k \in DOMAIN f |-> WithId(f[k], ids, k)]
              cs   == book.contacts \o At(rows, p)
          IN  IF dry THEN UNCHANGED << data, index, clean >>
                     ELSE Save(Book(cs, book.email, book.phone), FALSE)
    BY <1>3
  <1> DEFINE rows == [k \in DOMAIN f |-> WithId(f[k], ids, k)]
             cs   == book.contacts \o At(rows, p)
  <1>5. /\ f \in Seq(Contact) /\ Len(f) \in Nat /\ DOMAIN f = 1 .. Len(f)
        /\ \A k \in DOMAIN f : f[k] \in Contact
    BY FilesAssumption, KeysOfContacts, LenProperties
  <1>6. rows \in Seq(Contact) /\ DOMAIN rows = DOMAIN f
    <2>1. \A k \in DOMAIN f : f[k].id = Blank => ids[k] \in Ids
      BY <1>4 DEF NewIds
    <2>2. \A k \in 1 .. Len(f) : WithId(f[k], ids, k) \in Contact
      BY <1>5, <2>1 DEF WithId, Contact
    <2>3. [k \in 1 .. Len(f) |-> WithId(f[k], ids, k)] \in Seq(Contact)
      BY <1>5, <2>2, IsASeq
    <2>4. QED
      BY <1>5, <2>3
  <1> HIDE DEF rows
  <1>7. /\ p \in Ascents(Acceptable(book.contacts, f), Len(f))
        /\ Acceptable(book.contacts, f) \in SUBSET (DOMAIN rows)
    BY <1>6 DEF Acceptances, Acceptable
  <1>8. At(rows, p) \in Seq(Contact)
    BY <1>5, <1>6, <1>7, AtType
  <1>9. cs \in Seq(Contact)
    BY <1>1, <1>8, ConcatProperties DEF IsBook
  <1>10. CASE dry
    BY <1>1, <1>2, <1>4, <1>10, UnchangedKeepsFiles, ExitStep
  <1>11. CASE ~dry
    <2>1. Save(Book(cs, book.email, book.phone), FALSE)
      BY <1>4, <1>11 DEF rows
    <2> HIDE DEF cs
    <2>2. FileInv'
      BY <1>1, <1>9, <2>1, OtherContacts DEF IsBook
    <2>3. QED
      BY <1>2, <2>2, ExitStep
  <1>12. QED
    BY <1>10, <1>11

(* prune saves the contacts it keeps beside empty maps.                      *)
LEMMA PruneStep ==
    ASSUME IInv, Prune
    PROVE  IInv'
  <1>1. FileInv /\ IsBook(book)
    BY DEF IInv, JobInv, JobTyped
  <1>2. Exit
    BY DEF Prune
  <1>3. PICK before \in Times, dry \in BOOLEAN :
          LET kept == {i \in DOMAIN book.contacts : book.contacts[i].created >= before}
          IN  \E p \in Ascents(kept, Len(book.contacts)) :
                /\ kept = {p[i] : i \in DOMAIN p}
                /\ IF dry THEN UNCHANGED << data, index, clean >>
                          ELSE Save(Book(At(book.contacts, p), EmptyMap, EmptyMap), FALSE)
    BY DEF Prune
  <1> DEFINE kept == {i \in DOMAIN book.contacts : book.contacts[i].created >= before}
  <1>4. PICK p \in Ascents(kept, Len(book.contacts)) :
          IF dry THEN UNCHANGED << data, index, clean >>
                 ELSE Save(Book(At(book.contacts, p), EmptyMap, EmptyMap), FALSE)
    BY <1>3
  <1>5. book.contacts \in Seq(Contact) /\ Len(book.contacts) \in Nat
    BY <1>1, LenProperties DEF IsBook
  <1>6. kept \in SUBSET (DOMAIN book.contacts)
    OBVIOUS
  <1> HIDE DEF kept
  <1>7. At(book.contacts, p) \in Seq(Contact)
    BY <1>4, <1>5, <1>6, AtType
  <1>8. IsMap(EmptyMap, Emails) /\ IsMap(EmptyMap, Phones)
    BY DEF IsMap, EmptyMap
  <1>9. CASE dry
    BY <1>1, <1>2, <1>4, <1>9, UnchangedKeepsFiles, ExitStep
  <1>10. CASE ~dry
    <2>1. Save(Book(At(book.contacts, p), EmptyMap, EmptyMap), FALSE)
      BY <1>4, <1>10
    <2>2. FileInv'
      BY <1>1, <1>7, <1>8, <2>1, OtherContacts
    <2>3. QED
      BY <1>2, <2>2, ExitStep
  <1>11. QED
    BY <1>9, <1>10

(* A masked contact is a contact, and masking the name alone leaves the keys *)
(* as they were.                                                             *)
LEMMA RedactedFacts ==
    ASSUME NEW c \in Contact, NEW policy
    PROVE  /\ Redacted(c, policy) \in Contact
           /\ Redacted(c, policy).id = c.id
           /\ "email" \notin policy => Redacted(c, policy).email = c.email
           /\ "phone" \notin policy => Redacted(c, policy).phone = c.phone
  BY MaskAssumption DEF Redacted, Contact

(* scrub saves the masked contacts beside the maps of the unmasked ones.     *)
LEMMA ScrubStep ==
    ASSUME IInv, Scrub
    PROVE  IInv'
  <1>1. FileInv /\ IsBook(book) /\ (clean => ExactBook(book))
    BY DEF IInv, JobInv, JobTyped, BookExact
  <1>2. Exit
    BY DEF Scrub
  <1>3. PICK policy \in SUBSET {"name", "email", "phone"} :
          Save(Book([i \in DOMAIN book.contacts |-> Redacted(book.contacts[i], policy)],
                    book.email, book.phone), policy \subseteq {"name"})
    BY DEF Scrub
  <1> DEFINE cs == [i \in DOMAIN book.contacts |-> Redacted(book.contacts[i], policy)]
             b  == Book(cs, book.email, book.phone)
  <1>4. /\ Len(book.contacts) \in Nat /\ DOMAIN book.contacts = 1 .. Len(book.contacts)
        /\ \A i \in DOMAIN book.contacts : book.contacts[i] \in Contact
    BY <1>1, KeysOfContacts DEF IsBook
  <1>5. \A i \in 1 .. Len(book.contacts) : Redacted(book.contacts[i], policy) \in Contact
    BY <1>4, RedactedFacts
  <1>6. [i \in 1 .. Len(book.contacts) |-> Redacted(book.contacts[i], policy)] \in Seq(Contact)
    BY <1>4, <1>5, IsASeq
  <1>7. cs \in Seq(Contact)
    BY <1>4, <1>6
  <1>8. IsBook(b)
    BY <1>1, <1>7 DEF IsBook, Book
  <1>9. ASSUME policy \subseteq {"name"}, ExactBook(book)
        PROVE  ExactBook(b)
    <2>1. DOMAIN cs = DOMAIN book.contacts
      OBVIOUS
    <2>2. "email" \notin policy /\ "phone" \notin policy
      BY <1>9
    <2>3. \A i \in DOMAIN cs : /\ cs[i].email = book.contacts[i].email
                               /\ cs[i].phone = book.contacts[i].phone
      BY <1>4, <2>2, RedactedFacts
    <2> HIDE DEF cs
    <2>4. EmailsOf(cs) = EmailsOf(book.contacts)
      BY <2>1, <2>3 DEF EmailsOf
    <2>5. PhonesOf(cs) = PhonesOf(book.contacts)
      BY <2>1, <2>3 DEF PhonesOf
    <2>6. QED
      BY <1>9, <2>4, <2>5 DEF ExactBook, Book
  <1>10. Save(b, policy \subseteq {"name"})
    BY <1>3
  <1> HIDE DEF b
  <1> DEFINE faithful == (policy \subseteq {"name"})
  <1>11. Save(b, faithful) /\ faithful \in BOOLEAN /\ (clean /\ faithful => ExactBook(b))
    BY <1>1, <1>9, <1>10
  <1> HIDE DEF faithful
  <1>12. FileInv'
    BY <1>1, <1>8, <1>11, SaveKeepsFiles
  <1>13. QED
    BY <1>2, <1>12, ExitStep

-----------------------------------------------------------------------------
(* Every step keeps the inductive invariant.                                 *)
LEMMA StepInv == IInv /\ [Next]_vars => IInv'
  <1> SUFFICES ASSUME IInv, [Next]_vars PROVE IInv'
    OBVIOUS
  <1>1. CASE Load \/ Leave
    BY <1>1, LoadStep, LeaveStep
  <1>2. CASE Add \/ Edit \/ Delete
    BY <1>2, AddStep, EditStep, DeleteStep
  <1>3. CASE BeginImport \/ ImportRow \/ EndImport \/ ImportParallel
    BY <1>3, BeginImportStep, ImportRowStep, EndImportStep, ImportParallelStep
  <1>4. CASE BeginMerge \/ MergeNew \/ MergeMatch \/ EndMerge
    BY <1>4, BeginMergeStep, MergeNewStep, MergeMatchStep, EndMergeStep
  <1>5. CASE Prune \/ Scrub
    BY <1>5, PruneStep, ScrubStep
  <1>6. CASE UNCHANGED vars
    <2>1. UNCHANGED << data, index, book, job, clean >>
      BY <1>6 DEF vars
    <2>2. FileInv'
      BY <2>1, UnchangedKeepsFiles DEF IInv
    <2>3. JobInv'
      BY <2>1 DEF IInv, JobInv, JobTyped, BookExact, BookIds
    <2>4. QED
      BY <2>2, <2>3 DEF IInv
  <1>7. QED
    BY <1>1, <1>2, <1>3, <1>4, <1>5, <1>6 DEF Next

(* The inductive invariant holds in every reachable state.                   *)
THEOREM Invariance == Spec => []IInv
  BY InitInv, StepInv, PTL DEF Spec

(* Files, book and job always have the types the code gives them, the maps   *)
(* leading to positions that are numbers but not always to contacts.         *)
THEOREM TypeCorrect == Spec => []TypeOK
  <1>1. IInv => TypeOK
    BY DEF IInv, FileInv, FilesTyped, JobInv, JobTyped, TypeOK
  <1>2. QED
    BY <1>1, Invariance, PTL

(* No sequence of faithful commands, interrupted anywhere, stores the same   *)
(* e-mail or phone twice (email_exists, phone_exists and the map upkeep of   *)
(* storage.cpp).                                                             *)
THEOREM KeysAreUnique == Spec => []UniqueKeys
  <1>1. IInv => UniqueKeys
    <2> SUFFICES ASSUME IInv, clean, NEW i \in DOMAIN data, NEW j \in DOMAIN data, i # j
                 PROVE  ~Clash(data[i], data[j])
      BY DEF UniqueKeys, NoClash
    <2>1. Distinct(EmailsOf(data)) /\ Distinct(PhonesOf(data))
      BY DEF IInv, FileInv, DataDistinct
    <2>2. data[i].email # data[j].email
      BY <2>1 DEF Distinct, EmailsOf
    <2>3. data[i].phone # data[j].phone
      BY <2>1 DEF Distinct, PhonesOf
    <2>4. QED
      BY <2>2, <2>3 DEF Clash
  <1>2. QED
    BY <1>1, Invariance, PTL

(* A stale index file left by a save killed between its two writes still     *)
(* describes the data it names (PersistentIndex::save, load_or_build).       *)
THEOREM IndexNeverLies == Spec => []IndexTruthful
  <1>1. IInv => IndexTruthful
    BY DEF IInv, FileInv
  <1>2. QED
    BY <1>1, Invariance, PTL

(* The maps in memory describe the vector between any two steps of a         *)
(* command, an edit refused half-way and a delete included.                  *)
THEOREM MapsStayExact == Spec => []BookExact
  <1>1. IInv => BookExact
    BY DEF IInv, JobInv
  <1>2. QED
    BY <1>1, Invariance, PTL
-----------------------------------------------------------------------------
(* What a merge may do to the stored contacts.  MergeKeepsExisting speaks of *)
(* the data file, which a merge saves again and again or, under --dry-run,   *)
(* only at the end: what has to be kept is that the book in memory has grown *)
(* from the data file in the way the strategy allows.                        *)

Grown(strat, a, b) ==
    /\ Len(a) <= Len(b)
    /\ \A i \in DOMAIN a :
         \/ b[i] = a[i]
         \/ /\ strat = "prefer-existing" /\ a[i].note = Blank
            /\ b[i] = [a[i] EXCEPT !.note = b[i].note]

Kept ==
    /\ job = Open => book.contacts = data
    /\ clean /\ job.cmd = "merge" /\ job.strat # "prefer-newer"
         => Grown(job.strat, data, book.contacts)

(* Growing nothing, and growing twice.                                       *)
LEMMA GrownSame ==
    ASSUME NEW strat, NEW a \in Seq(Contact)
    PROVE  Grown(strat, a, a)
  BY LenProperties DEF Grown

LEMMA GrownTwice ==
    ASSUME NEW strat, NEW a \in Seq(Contact), NEW b \in Seq(Contact), NEW c \in Seq(Contact),
           Grown(strat, a, b), Grown(strat, b, c)
    PROVE  Grown(strat, a, c)
  <1>1. /\ Len(a) \in Nat /\ DOMAIN a = 1 .. Len(a) /\ Len(b) \in Nat /\ DOMAIN b = 1 .. Len(b)
        /\ Len(c) \in Nat
    BY LenProperties
  <1>2. Len(a) <= Len(c) /\ \A i \in DOMAIN a : i \in DOMAIN b
    BY <1>1 DEF Grown
  <1>3. ASSUME NEW i \in DOMAIN a
        PROVE  \/ c[i] = a[i]
               \/ /\ strat = "prefer-existing" /\ a[i].note = Blank
                  /\ c[i] = [a[i] EXCEPT !.note = c[i].note]
    <2>1. a[i] \in Contact /\ b[i] \in Contact
      BY <1>2, <1>3, KeysOfContacts
    <2>2. \/ b[i] = a[i]
          \/ /\ strat = "prefer-existing" /\ a[i].note = Blank
             /\ b[i] = [a[i] EXCEPT !.note = b[i].note]
      BY <1>3 DEF Grown
    <2>3. \/ c[i] = b[i]
          \/ /\ strat = "prefer-existing" /\ b[i].note = Blank
             /\ c[i] = [b[i] EXCEPT !.note = c[i].note]
      BY <1>2, <1>3 DEF Grown
    <2>4. CASE c[i] = b[i]
      BY <2>2, <2>4
    <2>5. CASE b[i] = a[i]
      BY <2>3, <2>5
    <2>6. CASE /\ strat = "prefer-existing" /\ a[i].note = Blank
               /\ b[i] = [a[i] EXCEPT !.note = b[i].note]
               /\ c[i] = [b[i] EXCEPT !.note = c[i].note]
      <3>1. [b[i] EXCEPT !.note = c[i].note] = [a[i] EXCEPT !.note = c[i].note]
        BY <2>1, <2>6 DEF Contact
      <3>2. QED
        BY <2>6, <3>1
    <2>7. QED
      BY <2>2, <2>3, <2>4, <2>5, <2>6
  <1>4. QED
    BY <1>2, <1>3 DEF Grown

(* A contact appended, and an empty note filled in.                          *)
LEMMA GrownByContact ==
    ASSUME NEW strat, NEW b, IsBook(b), NEW c \in Contact
    PROVE  Grown(strat, b.contacts, PushBack(b, c).contacts)
  <1>1. b.contacts \in Seq(Contact) /\ Len(b.contacts) \in Nat
    BY KeysOfContacts DEF IsBook
  <1>2. PushBack(b, c).contacts = Append(b.contacts, c)
    BY DEF PushBack, Book
  <1>3. /\ Len(Append(b.contacts, c)) = Len(b.contacts) + 1
        /\ \A i \in DOMAIN b.contacts : Append(b.contacts, c)[i] = b.contacts[i]
    BY <1>1, AppendProperties, LenProperties
  <1>4. QED
    BY <1>1, <1>2, <1>3 DEF Grown

LEMMA GrownByNote ==
    ASSUME NEW b, IsBook(b), NEW i \in DOMAIN b.contacts, b.contacts[i].note = Blank, NEW note
    PROVE  Grown("prefer-existing", b.contacts, SetNote(b, i, note).contacts)
  <1> DEFINE cs == b.contacts
             cx == SetNote(b, i, note).contacts
  <1>1. cs \in Seq(Contact) /\ Len(cs) \in Nat /\ DOMAIN cs = 1 .. Len(cs) /\ cs[i] \in Contact
    BY KeysOfContacts DEF IsBook
  <1>2. CASE note = Blank
    BY <1>1, <1>2, GrownSame DEF SetNote
  <1>3. CASE note # Blank
    <2>1. cx = [cs EXCEPT ![i] = [cs[i] EXCEPT !.note = note]]
      BY <1>3 DEF SetNote, Book
    <2>2. DOMAIN cx = DOMAIN cs /\ Len(cx) = Len(cs)
      BY <1>1, <2>1
    <2>3. \A j \in DOMAIN cs : j # i => cx[j] = cs[j]
      BY <1>1, <2>1
    <2>4. cx[i] = [cs[i] EXCEPT !.note = note] /\ cx[i].note = note
      BY <1>1, <2>1 DEF Contact
    <2> HIDE DEF cx
    <2>5. cx[i] = [cs[i] EXCEPT !.note = cx[i].note]
      BY <2>4
    <2>6. QED
      BY <1>1, <2>2, <2>3, <2>5 DEF Grown, cx
  <1>4. QED
    BY <1>2, <1>3

(* Saving a book leaves its contacts, or the old ones, in the data file.     *)
LEMMA SavedContacts ==
    ASSUME NEW b, NEW faithful, NEW dry, Save(b, faithful) \/ Persist(b, dry)
    PROVE  data' = data \/ data' = b.contacts
  BY DEF Save, Persist

(* The only contact that has its id is found by it.                          *)
LEMMA FoundById ==
    ASSUME NEW b, IsBook(b), Distinct(IdsOf(b.contacts)), NEW i \in DOMAIN b.contacts
    PROVE  /\ Positions(b, b.contacts[i].id) # {}
           /\ FirstPosition(b, b.contacts[i].id) = i
  <1>1. i \in Positions(b, b.contacts[i].id)
    BY DEF Positions
  <1>2. Positions(b, b.contacts[i].id) # {}
    BY <1>1
  <1>3. /\ FirstPosition(b, b.contacts[i].id) \in DOMAIN b.contacts
        /\ b.contacts[FirstPosition(b, b.contacts[i].id)].id = b.contacts[i].id
    BY <1>2, FirstPositionFact
  <1>4. QED
    BY <1>2, <1>3 DEF Distinct, IdsOf

(* An edit of nothing but the note does nothing but set it.                  *)
LEMMA EditOfNote ==
    ASSUME NEW b, IsBook(b), Distinct(IdsOf(b.contacts)), NEW i \in DOMAIN b.contacts,
           NEW o, o.name = Blank, o.email = Blank, o.phone = Blank, NEW oob
    PROVE  Edited(b, b.contacts[i].id, o, oob) = [ok |-> TRUE, book |-> SetNote(b, i, o.note)]
  <1>1. /\ Positions(b, b.contacts[i].id) # {}
        /\ FirstPosition(b, b.contacts[i].id) = i
    BY FoundById
  <1>2. /\ SetName(b, i, o.name) = b /\ SetEmail(b, i, o.email) = b /\ SetPhone(b, i, o.phone) = b
    BY DEF SetName, SetEmail, SetPhone
  <1>3. /\ ~NameRefused(o.name)
        /\ ~EmailRefused(b, b.contacts[i].id, o.email, oob)
        /\ ~PhoneRefused(b, b.contacts[i].id, o.phone, oob)
    BY DEF NameRefused, EmailRefused, PhoneRefused
  <1>4. QED
    BY <1>1, <1>2, <1>3 DEF Edited

(* A row that matches nothing only appends.                                  *)
LEMMA MergeNewGrows ==
    ASSUME IInv, MergeNew
    PROVE  /\ Grown(job.strat, book.contacts, book'.contacts)
           /\ data' = data \/ data' = book'.contacts
  <1>1. JobTyped /\ IsBook(book) /\ job.todo # << >>
    BY DEF IInv, JobInv, JobTyped, MergeNew
  <1> DEFINE row == Head(job.todo)
  <1>2. row \in Contact
    BY <1>1, NextRow, HeadTailProperties DEF JobTyped
  <1>3. PICK id \in Ids, t \in Times, oob \in Garbage(book) :
          LET c == New(row, id, t)
          IN  IF CanAdd(book, c, oob)
                THEN book' = PushBack(book, c) /\ Persist(book', job.dry)
                ELSE UNCHANGED << data, index, book, clean >>
    BY DEF MergeNew
  <1> DEFINE c == New(row, id, t)
  <1>4. c \in Contact
    BY <1>2, NewContact
  <1>5. \/ book' = PushBack(book, c) /\ Persist(book', job.dry)
        \/ book' = book /\ data' = data
    BY <1>3
  <1> HIDE DEF c, row
  <1>6. CASE book' = PushBack(book, c) /\ Persist(book', job.dry)
    BY <1>1, <1>4, <1>6, GrownByContact, SavedContacts
  <1>7. CASE book' = book /\ data' = data
    BY <1>1, <1>7, GrownSame DEF IsBook
  <1>8. QED
    BY <1>5, <1>6, <1>7

(* A row that matches a contact changes at most its empty note: the position *)
(* the maps gave and the contact its id leads to are the same.               *)
LEMMA MergeMatchGrows ==
    ASSUME IInv, MergeMatch, clean, job.strat # "prefer-newer"
    PROVE  /\ Grown(job.strat, book.contacts, book'.contacts)
           /\ data' = data \/ data' = book'.contacts
  <1>1. IsBook(book) /\ Distinct(IdsOf(book.contacts))
    BY DEF IInv, JobInv, JobTyped, BookIds, MergeMatch
  <1> DEFINE row == Head(job.todo)
             i   == Match(book, row)
             o   == MergeOptions(job.strat, row)
  <1>2. \/ /\ i \in DOMAIN book.contacts /\ MergeEdits(job.strat, row, book.contacts[i])
           /\ \E oob \in Garbage(book) :
                LET r == Edited(book, book.contacts[i].id, o, oob)
                IN  /\ book' = r.book
                    /\ IF r.ok THEN Persist(book', job.dry) ELSE UNCHANGED << data, index, clean >>
        \/ UNCHANGED << data, index, book, clean >>
    BY DEF MergeMatch
  <1>3. o.name = Blank /\ o.email = Blank /\ o.phone = Blank
    BY DEF MergeOptions
  <1> HIDE DEF row, i, o
  <1>4. CASE UNCHANGED << data, index, book, clean >>
    BY <1>1, <1>4, GrownSame DEF IsBook
  <1>5. ASSUME i \in DOMAIN book.contacts, MergeEdits(job.strat, row, book.contacts[i]),
               NEW oob \in Garbage(book), NEW r, r = Edited(book, book.contacts[i].id, o, oob),
               book' = r.book,
               IF r.ok THEN Persist(book', job.dry) ELSE UNCHANGED << data, index, clean >>
        PROVE  /\ Grown(job.strat, book.contacts, book'.contacts)
               /\ data' = data \/ data' = book'.contacts
    <2>1. job.strat = "prefer-existing" /\ book.contacts[i].note = Blank
      BY <1>5 DEF MergeEdits
    <2>2. r = [ok |-> TRUE, book |-> SetNote(book, i, o.note)]
      BY <1>1, <1>3, <1>5, EditOfNote
    <2>3. r.ok = TRUE /\ r.book = SetNote(book, i, o.note)
      BY <2>2
    <2>4. book' = SetNote(book, i, o.note) /\ Persist(book', job.dry)
      BY <1>5, <2>3
    <2>5. Grown(job.strat, book.contacts, book'.contacts)
      BY <1>1, <1>5, <2>1, <2>4, GrownByNote
    <2>6. data' = data \/ data' = book'.contacts
      BY <2>4, SavedContacts
    <2>7. QED
      BY <2>5, <2>6
  <1>6. QED
    BY <1>2, <1>4, <1>5

(* A process that exits has no merge to keep anything for.                   *)
LEMMA ExitKeepsKept ==
    ASSUME Exit
    PROVE  Kept'
  BY DEF Exit, Kept, NoJob, Open, Job

(* Choosing strategy and file: the book is the one that was loaded.          *)
LEMMA BeginMergeKept ==
    ASSUME IInv, Kept, BeginMerge
    PROVE  Kept'
  <1>1. book.contacts = data /\ data \in Seq(Contact)
    BY DEF Kept, BeginMerge, IInv, FileInv, FilesTyped
  <1>2. book' = book /\ data' = data /\ job' # Open
    BY DEF BeginMerge, Open, Job
  <1>3. Grown(job'.strat, data', book'.contacts)
    BY <1>1, <1>2, GrownSame
  <1>4. QED
    BY <1>2, <1>3 DEF Kept

(* Either kind of row keeps the book grown from the data file, and leaves    *)
(* the data file grown from what it was.                                     *)
LEMMA MergeRowKept ==
    ASSUME IInv, IInv', Kept, MergeNew \/ MergeMatch
    PROVE  /\ Kept'
           /\ clean /\ job.strat # "prefer-newer" => Grown(job.strat, data, data')
  <1>1. /\ job.cmd = "merge" /\ job'.cmd = job.cmd /\ job'.strat = job.strat /\ job' # Open
        /\ clean' => clean
    <2>1. /\ job.cmd = "merge" /\ job.todo # << >> /\ job' = [job EXCEPT !.todo = Tail(@)]
          /\ JobTyped
      BY DEF MergeNew, MergeMatch, IInv, JobInv
    <2>2. job'.cmd = job.cmd /\ job'.strat = job.strat
      BY <2>1 DEF JobTyped
    <2>3. clean' => clean
      BY DEF MergeNew, MergeMatch, Persist, Save
    <2>4. QED
      BY <2>1, <2>2, <2>3 DEF Open, Job
  <1>2. /\ data \in Seq(Contact) /\ data' \in Seq(Contact)
        /\ book.contacts \in Seq(Contact) /\ book'.contacts \in Seq(Contact)
    BY DEF IInv, FileInv, FilesTyped, JobInv, JobTyped, IsBook
  <1>3. ASSUME clean, job.strat # "prefer-newer"
        PROVE  /\ Grown(job.strat, data, data')
               /\ Grown(job.strat, data', book'.contacts)
    <2>1. /\ Grown(job.strat, book.contacts, book'.contacts)
          /\ data' = data \/ data' = book'.contacts
      BY <1>3, MergeNewGrows, MergeMatchGrows
    <2>2. Grown(job.strat, data, book.contacts)
      BY <1>1, <1>3 DEF Kept
    <2>3. Grown(job.strat, data, book'.contacts)
      BY <1>2, <2>1, <2>2, GrownTwice
    <2>4. Grown(job.strat, data, data) /\ Grown(job.strat, book'.contacts, book'.contacts)
      BY <1>2, GrownSame
    <2>5. QED
      BY <2>1, <2>3, <2>4
  <1>4. QED
    BY <1>1, <1>3 DEF Kept

(* What every step keeps of the stored contacts.                             *)
LEMMA KeptStep ==
    ASSUME IInv, IInv', Kept, [Next]_vars
    PROVE  /\ Kept'
           /\ clean /\ job.cmd = "merge" /\ job.strat # "prefer-newer"
                => Grown(job.strat, data, data')
  <1>1. data \in Seq(Contact)
    BY DEF IInv, FileInv, FilesTyped
  <1>2. CASE Load
    <2>1. job.cmd # "merge" /\ job' = Open
      BY <1>2 DEF Load, NoJob, Open, Job
    <2>2. book'.contacts = data'
      BY <1>2 DEF Load, NoBook, Rebuilt, Book
    <2>3. QED
      BY <2>1, <2>2 DEF Kept, Open, Job
  <1>3. CASE Leave
    <2>1. data' = data /\ Exit
      BY <1>3 DEF Leave
    <2>2. QED
      BY <1>1, <2>1, GrownSame, ExitKeepsKept
  <1>4. CASE Add \/ Edit \/ Delete \/ ImportParallel \/ Prune \/ Scrub
    <2>1. Exit /\ job = Open
      <3>1. CASE Add \/ Edit \/ Delete
        BY <3>1 DEF Add, Edit, Delete
      <3>2. CASE ImportParallel
        BY <3>2 DEF ImportParallel
      <3>3. CASE Prune \/ Scrub
        BY <3>3 DEF Prune, Scrub
      <3>4. QED
        BY <1>4, <3>1, <3>2, <3>3
    <2>2. QED
      BY <2>1, ExitKeepsKept DEF Open, Job
  <1>5. CASE BeginImport
    BY <1>5 DEF BeginImport, Kept, Open, Job
  <1>6. CASE ImportRow
    <2>1. job.cmd = "import" /\ job'.cmd = "import"
      BY <1>6 DEF ImportRow, IInv, JobInv, JobTyped
    <2>2. QED
      BY <2>1 DEF Kept, Open, Job
  <1>7. CASE EndImport
    <2>1. Exit /\ job.cmd # "merge"
      BY <1>7 DEF EndImport
    <2>2. QED
      BY <2>1, ExitKeepsKept
  <1>8. CASE BeginMerge
    <2>1. job.cmd # "merge"
      BY <1>8 DEF BeginMerge, Open, Job
    <2>2. QED
      BY <1>8, <2>1, BeginMergeKept
  <1>9. CASE MergeNew \/ MergeMatch
    BY <1>9, MergeRowKept
  <1>10. CASE EndMerge
    <2>1. Exit /\ (data' = data \/ data' = book.contacts)
      BY <1>10, SavedContacts DEF EndMerge
    <2>2. ASSUME clean, job.cmd = "merge", job.strat # "prefer-newer"
          PROVE  Grown(job.strat, data, data')
      BY <1>1, <2>1, <2>2, GrownSame DEF Kept
    <2>3. QED
      BY <2>1, <2>2, ExitKeepsKept
  <1>11. CASE UNCHANGED vars
    <2>1. data' = data /\ book' = book /\ job' = job /\ clean' = clean
      BY <1>11 DEF vars
    <2>2. QED
      BY <1>1, <2>1, GrownSame DEF Kept
  <1>12. QED
    BY <1>2, <1>3, <1>4, <1>5, <1>6, <1>7, <1>8, <1>9, <1>10, <1>11 DEF Next

(* With "skip" and "prefer-existing" no step of a merge touches a stored     *)
(* contact but to fill its empty note, wherever the merge is killed and      *)
(* whatever --dry-run says (merge_from_file, which finds a contact by        *)
(* position and edits it by id).                                             *)
THEOREM MergeKeeps == Spec => MergeKeepsExisting
  <1>1. Init => Kept
    BY DEF Init, Kept, NoJob, Open, Job
  <1>2. IInv /\ IInv' /\ Kept /\ [Next]_vars => Kept'
    BY KeptStep
  <1>3. IInv /\ IInv' /\ Kept /\ [Next]_vars
          => [ clean /\ job.cmd = "merge" /\ job.strat # "prefer-newer" =>
                 /\ Len(data) <= Len(data')
                 /\ \A i \in DOMAIN data :
                      \/ data'[i] = data[i]
                      \/ /\ job.strat = "prefer-existing" /\ data[i].note = Blank
                         /\ data'[i] = [data[i] EXCEPT !.note = data'[i].note] ]_vars
    BY KeptStep DEF Grown
  <1>4. QED
    BY <1>1, <1>2, <1>3, Invariance, PTL DEF Spec, MergeKeepsExisting
=============================================================================
