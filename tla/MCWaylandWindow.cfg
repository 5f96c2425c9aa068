\* Both kinds of decoration, two configures, two updates between or inside handlers.
\* The application may leave its window as it is.
SPECIFICATION Spec
CONSTANTS
  Sizes <- BothSizes
  Proposals <- SomeProposals
  NoSize <- Zero
  LimitSets <- BothLimits
  Scales <- BothScales
  Decorations <- BothDecorations
  Reactions <- AllReactions
  MaxConfigures = 2
  MaxUpdates = 2
INVARIANTS
  TypeOK
  GeometryIsTold
  StatesSettle
  ReadyOnceConfigured
CHECK_DEADLOCK FALSE
