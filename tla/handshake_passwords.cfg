SPECIFICATION Spec
CONSTANTS
 n1 = n1 n2 = n2
 Caller = n1
 Answerer = n2
 Sessions <- Exceptions
 MaxUnexpected = 2
INVARIANT MailForChecked HoldKept
