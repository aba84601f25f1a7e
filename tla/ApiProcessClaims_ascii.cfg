CONSTANTS
  Unset = Unset
  Garbage = Garbage
  NoQuestion = NoQuestion
  Labels <- AllLabels
  Octets <- LabelOctets
  Kind <- LabelKind
  Lower <- LabelLower
  Upper <- UpperOf
  Questions <- SomeQuestions
  Environments <- SomeEnvironments
  Framing = 25
SPECIFICATION Spec
INVARIANT AsciiOnly
