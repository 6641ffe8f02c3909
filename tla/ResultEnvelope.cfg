SPECIFICATION SpecFit
CONSTANTS
    Budgets <- MCBudgets
    Metas <- MCMetas
    Responses <- MCResponses
    Payloads <- MCPayloads
INVARIANTS WithinBudget ReportIsTrue
CHECK_DEADLOCK FALSE
