SPECIFICATION Spec
CONSTANTS
    Declared <- MCDeclared
    Verbs <- MCVerbs
    MaxDepth = 4
    Messages <- MCMessages
    Fields <- MCFields
    NoField = "nofield"
    MessageOf <- MCMessageOf
    PathOf <- MCPathOf
    Ruled <- MCRuled
    Policy <- MCPolicy
    Elements <- MCElements
    Requesters <- MCRequesters
    Tokens <- MCTokens
    Issuers <- MCIssuers
    KeyOf <- MCKeyOf
    NoKey = "nokey"
    Audience = "garm"
    Skew = 1
    MaxTime = 2
    Tools <- MCTools
    Decl <- MCDecl
    Rules <- MCRules
    Asked = {"UNSPECIFIED", "PERSON"}
    Wants <- MCWants
    Draft = "$schema"
    None = None
CHECK_DEADLOCK FALSE
INVARIANTS
    GenuineAdmitted
    FoldIsMeet
    PreviewOnlyNarrows
    ListingMatchesCalls
    OneSchemaPerKey
    SharedUntouched
    ViolationsMatchListing
