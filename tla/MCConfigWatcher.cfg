\* Editors that rename the file into place and leave a second after a reload,
\* and editors that do what they like.
SPECIFICATION FairSpec
CONSTANTS
  Contents <- MCContents
  Parsable <- MCParsable
  Accepted <- MCAccepted
  Partials <- MCPartials
  Initial = "first"
  EditorKinds = {TRUE, FALSE}
  MaxWrites = 3
INVARIANTS
  TypeOK
  NothingMissed
PROPERTIES
  LastEditServed
  FreshEventIsEnough
