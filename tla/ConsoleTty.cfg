SPECIFICATION Spec
CONSTANTS
  MaxChars = 3
INVARIANTS
  NoCharacterStuck
  EnableKept
PROPERTIES
  CharactersArrive
