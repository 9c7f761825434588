SPECIFICATION Spec
CONSTANTS
    Ids = {web, db}
    Defaults = {schema, tuned}
    Schema = schema
    Own = own
    MaxEdits = 3
    MaxCalls = 2
    Worlds <- MCWorlds
    Refused = Refused
    Broken = Broken
    Missing = Missing
    NoText = NoText
    web = web
    db = db
    schema = schema
    tuned = tuned
    own = own
PROPERTIES
    TypoLeavesConfigAlone
