CONSTANTS
  alpha = alpha
  beta = beta
  Empty = Empty
  Nothing = Nothing
  Title <- MCTitle
  Field <- MCField
  RequireNotes = TRUE
  RequireCrops = TRUE
  RecentLimit = 1
  Pages <- AllPages
  PageCount = 5
SPECIFICATION Spec
CONSTRAINT MCBook
INVARIANTS TypeOK StateIsReplay TocBeforeSections OpeningsFollowToc TailIsReal ParagraphsClosed CompleteTocExhausted MetaAgrees
  PublicationKeepsOrder MergesAreParagraphs NotesNumberedOnce FailsOnlyUnchecked
PROPERTIES OpeningWasAnnounced
