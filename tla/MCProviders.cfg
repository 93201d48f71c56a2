SPECIFICATION ProvidersSpec
CONSTANTS
    Columns = {"stock", "name"}
    Textual = {"name"}
    Null = Null
    Numbers = {1, 2}
    Numeral <- MCNumeral
    Lower <- MCLower
    JsLower <- MCJsLower
    LocaleLess <- MCLocaleLess
    Wildcards = {5}
    SignBit = 4
    Contents <- MCContents
    Queries <- MCQueries
    MaxRows = 3
    MaxId = 4
INVARIANTS
    ListsAgree
