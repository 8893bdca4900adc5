------------------------- MODULE JournalLifecycle -------------------------
(* What the general ledger promises of one journal, with no request, no    *)
(* period and no number in sight: the workflow DRAFT -> SUBMITTED ->       *)
(* REVIEWED -> POSTED of docs/final_gl_governance_certification.md, whose  *)
(* steps each happen at one instant.  Lines change only in DRAFT or        *)
(* REJECTED; only a reviewed, balanced journal is posted; the reviewer is  *)
(* not the maker and, without the override, the poster is neither; POSTED  *)
(* and VOIDED are final.                                                   *)
CONSTANTS Journals, Users, Contents, BalancedContents, None

VARIABLE book   \* status, maker, lines, who reviewed and posted, and how

NoEntry == [status |-> "NONE", maker |-> None, content |-> None,
            reviewer |-> None, poster |-> None, path |-> "policy"]

Move(j, from, to) ==
  /\ book[j].status \in from
  /\ book' = [book EXCEPT ![j] = to]

Draft(j) == \E u \in Users, c \in Contents :
  Move(j, {"NONE"}, [NoEntry EXCEPT !.status = "DRAFT", !.maker = u, !.content = c])

Edit(j) == \E c \in Contents :
  Move(j, {"DRAFT", "REJECTED"}, [book[j] EXCEPT !.content = c])

Park(j) == Move(j, {"DRAFT"}, [book[j] EXCEPT !.status = "PARKED"])

Void(j) == Move(j, {"DRAFT", "PARKED", "SUBMITTED", "REVIEWED", "REJECTED"},
                [book[j] EXCEPT !.status = "VOIDED"])

Submit(j) ==
  /\ book[j].content \in BalancedContents
  /\ Move(j, {"DRAFT", "REJECTED"}, [book[j] EXCEPT !.status = "SUBMITTED"])

Review(j) == \E u \in Users \ {book[j].maker} :
  Move(j, {"SUBMITTED"}, [book[j] EXCEPT !.status = "REVIEWED", !.reviewer = u])

Reject(j) == Move(j, {"SUBMITTED"}, [book[j] EXCEPT !.status = "REJECTED"])

Return(j) ==
  Move(j, {"REVIEWED"}, [book[j] EXCEPT !.status = "SUBMITTED", !.reviewer = None])

Post(j) ==
  /\ book[j].content \in BalancedContents
  /\ \E u \in Users \ {book[j].maker, book[j].reviewer} :
       Move(j, {"REVIEWED"}, [book[j] EXCEPT !.status = "POSTED", !.poster = u,
                                             !.path = "policy"])

PostByOverride(j) ==
  /\ book[j].content \in BalancedContents
  /\ \E u \in Users :
       Move(j, {"REVIEWED"}, [book[j] EXCEPT !.status = "POSTED", !.poster = u,
                                             !.path = "override"])

Init == book = [j \in Journals |-> NoEntry]

Next == \E j \in Journals :
  \/ Draft(j) \/ Edit(j) \/ Park(j) \/ Void(j) \/ Submit(j) \/ Review(j)
  \/ Reject(j) \/ Return(j) \/ Post(j) \/ PostByOverride(j)

Spec == Init /\ [][Next]_book

=============================================================================
