\* A browser on each form, three payments, one per request.
CONSTANTS
    None = None
    PageDesks = {page}
    BlockDesks = {block}
    MaxPayments = 3
    InitialPayment <- MCInitialPayment
    Price = 2
    Amounts = {1, 2}
    Cuotas = {1, 2}
    Limit = 1
    MaxTrouble = 1
    MaxSlips = 1
SPECIFICATION Spec
INVARIANT TypeOK LoadedHistoryIsComplete InstallmentsUnique PriceRespected
CHECK_DEADLOCK FALSE
