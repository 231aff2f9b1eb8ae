SPECIFICATION MoneySpec
CONSTANTS
    u1 = u1
    u2 = u2
    c1 = c1
    c2 = c2
    k1 = k1
    m1 = m1
    Users <- TwoUsers
    Conns = {c1, c2}
    UserOf <- SameUser
    Codes = {k1}
    Worth <- WorthTwo
    MaxUses <- TwiceCode
    Mails = {m1}
    MailTo <- ToFirst
    MailGold <- ThreeGold
    Price = 2
    Quantities <- FewQuantities
    Start = 2
    MaxWins = 1
    MaxFaults = 1
INVARIANTS NoOverdraft PaysOnce MoneyAddsUp
PROPERTY OwnMailOnly
