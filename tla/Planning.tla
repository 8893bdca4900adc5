------------------------------ MODULE Planning ------------------------------
(* Budgets and forecasts (src/.../budgets/budgets.service.ts,              *)
(* src/.../forecasts/forecasts.service.ts).  A fiscal year has at most one *)
(* ACTIVE budget, which the code checks, and one forecast, which the       *)
(* database checks too.  Only the first version of a forecast is ever      *)
(* created, so a row stands for a forecast and its version.                *)
EXTENDS Handlers

CONSTANTS
  Budgets, Forecasts,
  FiscalYears,
  Figures      \* what the lines of a forecast say

VARIABLES
  budgets,
  forecasts

planningTables == <<budgets, forecasts>>
planningVars == <<planningTables, handlerVars>>

NoBudget == [status |-> "NONE", year |-> None]

(* submitted, approvedBy: kept by the audit events only.                   *)
NoForecast == [status |-> "NONE", year |-> None, createdBy |-> None, lines |-> None,
               submitted |-> None, approvedBy |-> None]

PlanningInit ==
  /\ budgets = [b \in Budgets |-> NoBudget]
  /\ forecasts = [f \in Forecasts |-> NoForecast]

-----------------------------------------------------------------------------
CreateBudget(r, b, year) ==
  /\ budgets[b] = NoBudget
  /\ AtOnce(r)
  /\ budgets' = [budgets EXCEPT ![b] = [status |-> "DRAFT", year |-> year]]
  /\ UNCHANGED forecasts

(* Mutant: only the budget itself is looked at.                            *)
ItselfInactive(b) == budgets[b].status # "ACTIVE"

NoneActive(b) ==
  \A c \in Budgets : budgets[c].year = budgets[b].year => budgets[c].status # "ACTIVE"

ApproveBudget(r, b) ==
  /\ budgets[b] # NoBudget
  /\ NoneActive(b)
  /\ Begin(r, "activate budget", b, None, None)
  /\ UNCHANGED planningTables

WriteActive(r) ==
  /\ At(r, "activate budget")
  /\ budgets' = [budgets EXCEPT ![running[r].doc].status = "ACTIVE"]
  /\ Finish(r)
  /\ UNCHANGED forecasts

-----------------------------------------------------------------------------
(* The unique index on tenant and fiscal year.                             *)
YearFree(year) == \A f \in Forecasts : forecasts[f].year # year

CreateForecast(r, by, f, year, figures) ==
  /\ \A g \in Forecasts : forecasts[g].year # year
  /\ forecasts[f] = NoForecast
  /\ Begin(r, "insertForecast", f, by,
           [NoForecast EXCEPT !.status = "DRAFT", !.year = year, !.createdBy = by, !.lines = figures])
  /\ UNCHANGED planningTables

InsertForecast(r) ==
  /\ At(r, "insertForecast")
  /\ forecasts[running[r].doc] = NoForecast
  /\ IF YearFree(running[r].saw.year)
       THEN forecasts' = [forecasts EXCEPT ![running[r].doc] = running[r].saw]
       ELSE UNCHANGED forecasts
  /\ Finish(r)
  /\ UNCHANGED budgets

(* Mutant: a forecast can be edited until it is approved.                  *)
EditableUntilApproval(f) == forecasts[f].status \in {"DRAFT", "SUBMITTED"}

EditableForecast(f) == forecasts[f].status = "DRAFT"

UpdateForecastLines(r, f, figures) ==
  /\ EditableForecast(f)
  /\ Begin(r, "writeLines", f, None, figures)
  /\ UNCHANGED planningTables

WriteForecastLines(r) ==
  /\ At(r, "writeLines")
  /\ forecasts' = [forecasts EXCEPT ![running[r].doc].lines = running[r].saw]
  /\ Finish(r)
  /\ UNCHANGED budgets

SubmitForecast(r, f) ==
  /\ forecasts[f].status = "DRAFT"
  /\ Begin(r, "submitForecast", f, None, None)
  /\ UNCHANGED planningTables

WriteForecastSubmitted(r) ==
  /\ At(r, "submitForecast")
  /\ forecasts' = [forecasts EXCEPT
       ![running[r].doc] = [@ EXCEPT !.status = "SUBMITTED", !.submitted = forecasts[running[r].doc].lines]]
  /\ Finish(r)
  /\ UNCHANGED budgets

ApproveForecast(r, by, f) ==
  /\ forecasts[f].status = "SUBMITTED"
  /\ forecasts[f].createdBy # by
  /\ Begin(r, "approveForecast", f, by, None)
  /\ UNCHANGED planningTables

WriteForecastApproved(r) ==
  /\ At(r, "approveForecast")
  /\ forecasts' = [forecasts EXCEPT
       ![running[r].doc].status = "APPROVED", ![running[r].doc].approvedBy = running[r].by]
  /\ Finish(r)
  /\ UNCHANGED budgets

PlanningStep ==
  \E r \in Requests :
    \/ \E b \in Budgets :
         ApproveBudget(r, b) \/ \E year \in FiscalYears : CreateBudget(r, b, year)
    \/ \E f \in Forecasts :
         \/ SubmitForecast(r, f)
         \/ \E by \in Users : ApproveForecast(r, by, f)
         \/ \E figures \in Figures :
              \/ UpdateForecastLines(r, f, figures)
              \/ \E by \in Users, year \in FiscalYears : CreateForecast(r, by, f, year, figures)
    \/ WriteActive(r) \/ InsertForecast(r) \/ WriteForecastLines(r)
    \/ WriteForecastSubmitted(r) \/ WriteForecastApproved(r)
    \/ Fail(r) /\ UNCHANGED planningTables

PlanningSpec == PlanningInit /\ HandlersInit /\ [][PlanningStep]_planningVars

-----------------------------------------------------------------------------
(* One request at a time: "An ACTIVE budget already exists for this fiscal *)
(* year": a year has one.                                                  *)
OneActiveBudget ==
  ~overlap => \A b, c \in Budgets :
    b # c /\ budgets[b].status = "ACTIVE" /\ budgets[c].status = "ACTIVE" =>
      budgets[b].year # budgets[c].year

(* One request at a time: the lines of an approved forecast are those that *)
(* were submitted, and another user than its creator approved them.        *)
ForecastAsSubmitted ==
  ~overlap => \A f \in Forecasts : forecasts[f].status = "APPROVED" =>
    /\ forecasts[f].lines = forecasts[f].submitted
    /\ forecasts[f].approvedBy \notin {None, forecasts[f].createdBy}

=============================================================================
