SPECIFICATION StreamSpec
CONSTANTS
  Kinds = {"anthropic", "cohere", "gemini"}
  Wires <- MCWires
INVARIANTS StreamTypeOK ChunkingIrrelevant RoleThenDone
CHECK_DEADLOCK FALSE
