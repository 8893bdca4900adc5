CONSTANTS
  u1 = u1
  u2 = u2
  clerk = clerk
  poster = poster
  admin = admin
  Users = {u1, u2, u3}
  Requests = {r1, r2}
  None = None
  Modes = {TRUE, FALSE}
  Overrides = {o1}
  Entries = {e1}
  MaxAmount = 1
  Statements = {i1, i2}
  StatementLines = {l1, l2}
  JournalLines = {j1, j2}
  MaxDay = 2
  Assets = {a1}
  Runs = {i1, i2}
  LastMonth = 2
  Budgets = {i1, i2}
  Forecasts = {i1, i2}
  FiscalYears = {2026}
  Figures = {1, 2}
  Staff = {u1, u2, u3}
  Roles = {clerk, poster, admin}
  Admin = admin
  Conflicts <- OneConflict
  Templates = {t1}
  TemplateLines = {1, 2}
  LastRunDate = 2
  Frequencies = {1}
  Accounts = {a1}
  Sessions = {i1, i2}
  Challenges = {c1}
  Tokens = {t1}
  Grants = {g1}
  MaxAttempts = 2
\* Bounded tables: a full one ends the behaviour.
CHECK_DEADLOCK FALSE
CONSTRAINTS Few FewLogins TheFirst
SPECIFICATION BackSpec
SYMMETRY Interchangeable
INVARIANTS
  ConflictNeedsApproval
  MatchesAgree ClearedByExisting
  DepreciatedOnce DisposedAtCarryingAmount
  ForecastAsSubmitted
  NeverWithoutAdmin NoConflictingRoles
  GeneratedAsSubmitted
  LockMatchesCount OneLiveSession
PROPERTIES LockedIsFrozen RevokedStays LockHolds
