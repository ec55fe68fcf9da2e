CONSTANTS
    MaxIds = 3
    MaxTime = 2
    Reach = 1
    BindMax = 2
    Budgets <- MCBudgets
    Ports = {1}
    Places <- MCPlaces
SPECIFICATION CoreSpec
INVARIANTS Directory OwnDatagrams
PROPERTIES QueueSpec
