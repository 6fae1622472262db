SPECIFICATION UserSpec
CONSTANTS
    Lines <- EdgeLines
    NoDate = NoDate
    ZoneHours <- KST
    LastHour <- EndOf3000
    Lengths = {0, 1, 4, 8, 18, 19, 49}
    NoInput = NoInput
    Words = {w1, w2}
    Typed <- EdgeTexts
    Slash = Slash
    Dishes <- SomeDishes
    MaxRows = 2
    MaxDishes = 2
    Bytes <- SomeBytes
    EntrySize = 50
    MealSize = 100
SYMMETRY WordSymmetry
INVARIANTS
    DaysAreReal
    SevenDaysAsked
    LimitIsClose
    QueryInv
    CarefulUsersStayInStep
    NeverMisread
    MenusSpeakTheProtocol
    SuccessIsTheServers
    EverythingIsFreedOnce
    PlainDishesAreShown
CHECK_DEADLOCK FALSE
