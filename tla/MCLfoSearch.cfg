SPECIFICATION SyncSpec
CONSTANTS
  NumVoices = 3
  Tones = {piano, strings}
  First = TRUE
PROPERTY SearchOnlyLooks
