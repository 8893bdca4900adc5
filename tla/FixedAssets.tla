----------------------------- MODULE FixedAssets -----------------------------
(* Fixed assets (src/.../fa/fa.service.ts): an asset is capitalized,       *)
(* depreciated once a period as long as it is CAPITALIZED, and disposed of *)
(* at its cost less the depreciation recorded for it.  Every handler posts *)
(* a journal (SourcePosting) before its last write, and may be refused     *)
(* there; the depreciation run and its lines are written before that.      *)
EXTENDS Handlers

CONSTANTS
  Assets,
  Runs,       \* ids of FixedAssetDepreciationRun rows
  LastMonth   \* bound: periods are the months 1..LastMonth

ASSUME AssetsAssumption == LastMonth \in Nat

VARIABLES
  assets,
  runs

assetTables == <<assets, runs>>
assetVars == <<assetTables, handlerVars>>

Months == 1..LastMonth

(* from: the first month whose start is not before the capitalization;     *)
(* until: the last month that ended by the disposal; accumulated: the      *)
(* depreciation the disposal journal took off.                             *)
NoAsset == [status |-> "NONE", from |-> 0, until |-> 0, accumulated |-> 0]
NoRun == [month |-> 0, lines |-> {}, journal |-> "NONE"]

AssetsInit ==
  /\ assets = [a \in Assets |-> NoAsset]
  /\ runs = [d \in Runs |-> NoRun]

-----------------------------------------------------------------------------
(* Mutant: assets that were disposed of are depreciated as well.           *)
CapitalizedBefore(m) ==
  {a \in Assets : assets[a].status \in {"CAPITALIZED", "DISPOSED"} /\ assets[a].from <= m}

Depreciable(m) == {a \in Assets : assets[a].status = "CAPITALIZED" /\ assets[a].from <= m}

(* getAccumulatedDepreciationToDate: one line is one month's share; lines  *)
(* of runs whose journal never got posted count.                           *)
AccumulatedTo(a, m) ==
  Cardinality({d \in Runs : a \in runs[d].lines /\ runs[d].month <= m})

(* Mutant: there is no unique index on the period of a run.                *)
AlwaysFree(m) == TRUE

(* The unique index on tenant and period.                                  *)
MonthFree(m) == \A d \in Runs : runs[d].month # m

CreateAsset(r, a) ==
  /\ assets[a] = NoAsset
  /\ AtOnce(r)
  /\ assets' = [assets EXCEPT ![a].status = "DRAFT"]
  /\ UNCHANGED runs

CapitalizeAsset(r, a, from) ==
  /\ assets[a].status = "DRAFT"
  /\ Begin(r, "capitalize", a, None, from)
  /\ UNCHANGED assetTables

(* The journal is posted; UPDATE by id.                                    *)
WriteCapitalized(r) ==
  /\ At(r, "capitalize")
  /\ assets' = [assets EXCEPT
       ![running[r].doc].status = "CAPITALIZED", ![running[r].doc].from = running[r].saw]
  /\ Finish(r)
  /\ UNCHANGED runs

(* runDepreciationForPeriod: no run yet, and the assets to depreciate.  A  *)
(* month without such assets is recorded as an empty run.                  *)
RunDepreciation(r, m) ==
  /\ \A d \in Runs : runs[d].month # m
  /\ Begin(r, "insertRun", m, None, Depreciable(m))
  /\ UNCHANGED assetTables

InsertRun(r) ==
  /\ At(r, "insertRun")
  /\ IF MonthFree(running[r].doc)
       THEN \E d \in Runs :
              /\ runs[d] = NoRun
              /\ runs' = [runs EXCEPT ![d].month = running[r].doc]
              /\ IF running[r].saw = {} THEN Finish(r)
                 ELSE Goto(r, "insertLines", [run |-> d, assets |-> running[r].saw])
       ELSE Finish(r) /\ UNCHANGED runs
  /\ UNCHANGED assets

(* createMany                                                              *)
InsertLines(r) ==
  LET saw == running[r].saw IN
  /\ At(r, "insertLines")
  /\ runs' = [runs EXCEPT ![saw.run].lines = @ \cup saw.assets]
  /\ Goto(r, "bookRun", saw)
  /\ UNCHANGED assets

(* The journal is posted; the run names it.                                *)
BookRun(r) ==
  /\ At(r, "bookRun")
  /\ runs' = [runs EXCEPT ![running[r].saw.run].journal = "POSTED"]
  /\ Finish(r)
  /\ UNCHANGED assets

DisposeAsset(r, a, until) ==
  /\ assets[a].status = "CAPITALIZED"
  /\ Begin(r, "readAccumulated", a, None, until)
  /\ UNCHANGED assetTables

ReadAccumulated(r) ==
  LET until == running[r].saw IN
  /\ At(r, "readAccumulated")
  /\ Goto(r, "dispose", [until |-> until, accumulated |-> AccumulatedTo(running[r].doc, until)])
  /\ UNCHANGED assetTables

(* The journal with the accumulated depreciation that was read is posted.  *)
WriteDisposed(r) ==
  LET a == running[r].doc IN
  /\ At(r, "dispose")
  /\ assets' = [assets EXCEPT
       ![a].status = "DISPOSED",
       ![a].until = running[r].saw.until, ![a].accumulated = running[r].saw.accumulated]
  /\ Finish(r)
  /\ UNCHANGED runs

AssetsStep ==
  \E r \in Requests :
    \/ \E a \in Assets :
         \/ CreateAsset(r, a)
         \/ \E m \in Months : CapitalizeAsset(r, a, m) \/ DisposeAsset(r, a, m)
    \/ \E m \in Months : RunDepreciation(r, m)
    \/ WriteCapitalized(r) \/ InsertRun(r) \/ InsertLines(r) \/ BookRun(r)
    \/ ReadAccumulated(r) \/ WriteDisposed(r)
    \/ Fail(r) /\ UNCHANGED assetTables

AssetsSpec == AssetsInit /\ HandlersInit /\ [][AssetsStep]_assetVars

-----------------------------------------------------------------------------
(* However requests overlap and stop: an asset is depreciated once for a   *)
(* month; when they do not overlap, not for a month before its first.      *)
DepreciatedOnce ==
  \A a \in Assets : \A d \in Runs : a \in runs[d].lines =>
    /\ \A e \in Runs \ {d} : a \in runs[e].lines => runs[e].month # runs[d].month
    /\ ~overlap => assets[a].from <= runs[d].month

(* One request at a time: what a disposal took off is all the depreciation *)
(* there is for the months up to it, also when earlier months are run late. *)
DisposedAtCarryingAmount ==
  ~overlap => \A a \in Assets :
    assets[a].status = "DISPOSED" =>
      assets[a].accumulated = AccumulatedTo(a, assets[a].until)

=============================================================================
