SPECIFICATION LocalSpec
CONSTANTS
  user = user
  team = team
  name = name
  User <- MCUser
  Name <- MCName
  Data = {x}
  Parts = 2
PROPERTIES
  LocalImplements
