SPECIFICATION Spec
CONSTANTS
    Requests = {r1}
    Products = {"prodF", "prodP", "prodM"}
    Price <- MCPrice
    Envs <- MCEnvs
    Unset = Unset
    NoSub = NoSub
    NoRow = NoRow
    MaxChanges = 4
    MaxWriting = 1
    MaxRedeploys = 1
INVARIANT FreshRowIsTrue
PROPERTIES PaidSurvivesFree PaidForIsKept
