SPECIFICATION SendFairSpec
CONSTANTS
  text = text
  picture = picture
  Rec <- MC_Rec
  Picture <- MC_Picture
  All = all
  Peer = peer
  NoSend = NoSend
  MaxUser = 5
INVARIANTS AnswersAreTheActiveSends QueueIsWhatWasAsked
PROPERTY QueueDrains
CHECK_DEADLOCK FALSE
