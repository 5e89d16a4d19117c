SPECIFICATION Spec
CONSTANTS
    Ids = {1, 2, 3, 4}
    TimeOf <- MCTimeOf
    Filters <- MCFilters
    Numbers <- MCNumbers
    DefaultSearchLimit = 2
    MaxSearchLimit = 3
    IntMax = 7
    Clients = {c1}
    MaxText = 5
INVARIANTS TypeOK NoRowSkipped PageAgreesWithTotal NamedProviderAnswers
