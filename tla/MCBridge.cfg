CONSTANT Handlers = {h1, h2, h3}
SPECIFICATION FairSpec
INVARIANTS NoDanglingCommand AnswerIsTruth
PROPERTIES ImplementsService EveryCallAnswered
