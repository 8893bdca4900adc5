------------------------- MODULE RecurringTemplates -------------------------
(* Templates of recurring journals (src/.../gl/gl.service.ts): written,    *)
(* submitted, approved, suspended and archived, and the draft journals     *)
(* they generate.  Every handler reads the template, checks it and writes  *)
(* the row by its id; what becomes of a draft is told in GlJournals.       *)
EXTENDS Handlers

CONSTANTS
  Templates,       \* ids
  TemplateLines,   \* what the lines of a template may say
  LastRunDate,     \* bound: run dates are 1..LastRunDate
  Frequencies      \* distances between two run dates

ASSUME TemplatesAssumption ==
  /\ LastRunDate \in Nat /\ Frequencies \subseteq Nat
  /\ None \notin TemplateLines \cup Users \cup Nat

VARIABLES
  templates,
  generations      \* generations[t][d]: the lines of the journal of date d

templateTables == <<templates, generations>>
templateVars == <<templateTables, handlerVars>>

RunDates == 1..LastRunDate

NoTemplate ==
  [status |-> "NONE", createdBy |-> None, lines |-> None, every |-> None, end |-> None,
   submitted |-> None, approvedBy |-> None]

TemplatesInit ==
  /\ templates = [t \in Templates |-> NoTemplate]
  /\ generations = [t \in Templates |-> [d \in RunDates |-> None]]

Template(r) == running[r].doc

(* The row is written by its id, whatever it has become since it was read. *)
WriteTemplate(r, row) ==
  /\ templates' = [templates EXCEPT ![Template(r)] = row]
  /\ UNCHANGED generations
  /\ Finish(r)

-----------------------------------------------------------------------------
(* createRecurringTemplate, updateRecurringTemplate                        *)

CreateTemplate(r, by, t, lines, every, end) ==
  /\ templates[t] = NoTemplate
  /\ AtOnce(r)
  /\ templates' = [templates EXCEPT ![t] =
       [NoTemplate EXCEPT !.status = "DRAFT", !.createdBy = by,
                          !.lines = lines, !.every = every, !.end = end]]
  /\ UNCHANGED generations

UpdateTemplate(r, by, t, lines, every, end) ==
  /\ templates[t].status = "DRAFT"
  /\ Begin(r, "rewrite", t, by, [lines |-> lines, every |-> every, end |-> end])
  /\ UNCHANGED templateTables

RewriteTemplate(r) ==
  LET new == running[r].saw IN
  /\ At(r, "rewrite")
  /\ WriteTemplate(r, [templates[Template(r)] EXCEPT
       !.status = "DRAFT", !.lines = new.lines, !.every = new.every, !.end = new.end])

-----------------------------------------------------------------------------
(* assertRecurringTemplateStatusTransition                                 *)
Transitions ==
  {<<"DRAFT", "PENDING_APPROVAL">>, <<"PENDING_APPROVAL", "APPROVED">>,
   <<"APPROVED", "SUSPENDED">>, <<"APPROVED", "ARCHIVED">>,
   <<"SUSPENDED", "APPROVED">>, <<"SUSPENDED", "ARCHIVED">>}

BeginTransition(r, by, t, to, step) ==
  /\ <<templates[t].status, to>> \in Transitions
  /\ Begin(r, step, t, by, to)
  /\ UNCHANGED templateTables

SubmitTemplate(r, by, t) == BeginTransition(r, by, t, "PENDING_APPROVAL", "submit")

ApproveTemplate(r, by, t) ==
  /\ templates[t].createdBy # by
  /\ BeginTransition(r, by, t, "APPROVED", "approve")

(* reactivate takes a template that waits for its approval as well, and    *)
(* does not ask who wrote it.                                              *)
ReactivateTemplate(r, by, t) == BeginTransition(r, by, t, "APPROVED", "approve")
SuspendTemplate(r, by, t) == BeginTransition(r, by, t, "SUSPENDED", "mark")
ArchiveTemplate(r, by, t) == BeginTransition(r, by, t, "ARCHIVED", "mark")

(* submitted remembers the lines the submission was made with.             *)
MarkSubmitted(r) ==
  /\ At(r, "submit")
  /\ WriteTemplate(r, [templates[Template(r)] EXCEPT
       !.status = "PENDING_APPROVAL", !.submitted = templates[Template(r)].lines])

MarkApproved(r) ==
  /\ At(r, "approve")
  /\ WriteTemplate(r, [templates[Template(r)] EXCEPT
       !.status = "APPROVED", !.approvedBy = running[r].by])

MarkTemplate(r) ==
  /\ At(r, "mark")
  /\ WriteTemplate(r, [templates[Template(r)] EXCEPT !.status = running[r].saw])

-----------------------------------------------------------------------------
(* generateJournalFromRecurringTemplate: a journal of any date for which   *)
(* there is an open period and none was generated yet; the day the         *)
(* template says comes next is not asked for.                              *)

(* Mutant: a template generates unless it was stopped.                     *)
NotStopped(t) == templates[t].status \notin {"NONE", "SUSPENDED", "ARCHIVED"}

MayGenerate(t) == templates[t].status = "APPROVED"

Generate(r, by, t, date) ==
  /\ MayGenerate(t)
  /\ Begin(r, "generate", t, by, [row |-> templates[t], date |-> date])
  /\ UNCHANGED templateTables

(* One transaction: the draft, the row that makes the date unique, and the *)
(* template, which gets back the status that was read before or, past its  *)
(* end, is suspended.                                                      *)
WriteGenerated(r) ==
  LET t == Template(r)
      row == running[r].saw.row
      date == running[r].saw.date
      over == row.end # None /\ date + row.every > row.end
  IN
  /\ At(r, "generate")
  /\ generations[t][date] = None
  /\ generations' = [generations EXCEPT ![t][date] = row.lines]
  /\ templates' = [templates EXCEPT ![t].status = IF over THEN "SUSPENDED" ELSE row.status]
  /\ Finish(r)

-----------------------------------------------------------------------------
TemplateStep ==
  \E r \in Requests :
    \/ \E by \in Users, t \in Templates :
         \/ \E lines \in TemplateLines, every \in Frequencies, end \in RunDates \cup {None} :
              \/ CreateTemplate(r, by, t, lines, every, end)
              \/ UpdateTemplate(r, by, t, lines, every, end)
         \/ SubmitTemplate(r, by, t) \/ ApproveTemplate(r, by, t)
         \/ ReactivateTemplate(r, by, t) \/ SuspendTemplate(r, by, t)
         \/ ArchiveTemplate(r, by, t)
         \/ \E date \in RunDates : Generate(r, by, t, date)
    \/ RewriteTemplate(r) \/ MarkSubmitted(r) \/ MarkApproved(r) \/ MarkTemplate(r)
    \/ WriteGenerated(r)
    \/ Fail(r) /\ UNCHANGED templateTables

TemplatesSpec == TemplatesInit /\ HandlersInit /\ [][TemplateStep]_templateVars

-----------------------------------------------------------------------------
(* One request at a time: a generated journal has the lines that were      *)
(* submitted, and somebody approved them - whatever happened to the        *)
(* template before and after: "Only DRAFT recurring templates can be       *)
(* edited.  Submit for approval to proceed."                               *)
GeneratedAsSubmitted ==
  ~overlap => \A t \in Templates, d \in RunDates :
    generations[t][d] # None =>
      generations[t][d] = templates[t].submitted /\ templates[t].approvedBy # None

=============================================================================
